---- MODULE Spec2Model ----
(***************************************************************************)
(* A model of MockMaster's progress tracking (ProgressTree) and of the     *)
(* verification-code store of UserModel.                                   *)
(*                                                                         *)
(* Representation of JavaScript values:                                    *)
(*   - a questionId string is the sequence of its '-'-separated segments,  *)
(*     so "alg-1001" is <<"alg", "1001">>, the empty string is <<"">>, and *)
(*     undefined/null is <<>>;                                             *)
(*   - a plain object used as a map is the sequence of its own entries in  *)
(*     creation order;                                                     *)
(*   - a date (ISO string) is its epoch value, an absent/falsy date is 0;  *)
(*   - undefined/null of a string-valued field is NULL.                    *)
(***************************************************************************)
EXTENDS Integers, Sequences, FiniteSets, TLC

VARIABLES
    pt,         \* the ProgressTree object: [version, tree, totals]
    now,        \* the wall clock (Date.now())
    last,       \* the last call made on the tree: its arguments, the item
                \* stored for its questionId before it, and what it returned
    calledIds,  \* history: the questionIds passed to addAttempt (of a stored
                \* user: those for which addOrUpdateAttempt returned) so far
    nCalls,     \* history: the number of calls made so far
    added,      \* history: the questionIds for which addAttempt returned true
    codes,      \* db.verificationCodes of the database file
    lastC,      \* the last call made on the verification codes
    issuedRaw,  \* history of the tracked pair: the raw code its last issue
                \* returned (NULL before the first issue)
    wrongRun,   \* history of the tracked pair: the verifyCode calls with a
                \* wrong code in a row since its last issue
    consumed,   \* history of the tracked pair: a verifyCode call has returned
                \* true since its last issue
    questionsFile,  \* data/questions.json: the complete flag of each question
    users,      \* db.users of the database file
    lastR,      \* the last HTTP request and the response it was given
    dbFile,     \* the database file: the progress of the one user in it
    procs,      \* the addOrUpdateAttempt calls in flight, one per request
    nWrites     \* history: the number of writes of the database file so far

treeVars == <<pt, last, calledIds, nCalls, added>>
codeVars == <<codes, lastC, issuedRaw, wrongRun, consumed>>
appVars == <<questionsFile, users, lastR>>
storeVars == <<dbFile, procs, nWrites>>
vars == <<pt, now, last, calledIds, nCalls, added,
          codes, lastC, issuedRaw, wrongRun, consumed,
          questionsFile, users, lastR, dbFile, procs, nWrites>>

NULL == "<undefined>"

----------------------------------------------------------------------------
(* Bounds and input universes *)

MaxCalls == 3
MaxTreeNow == 2

UNDEFINED_ID == <<>>
EMPTY_ID == <<"">>

QuestionIds ==
    { UNDEFINED_ID, EMPTY_ID,
      <<"alg", "1001">>, <<"geo", "1001">>,
      <<"Algebra", "7">>,
      <<"constructor", "1">> }

Meta(completedAt, timeTakenSeconds, notes) ==
    [completedAt |-> completedAt, timeTakenSeconds |-> timeTakenSeconds,
     notes |-> notes]

\* {}, {notes}, {timeTakenSeconds, notes}, {completedAt}, all three
Metas ==
    { Meta(0, NULL, ""), Meta(0, NULL, "n1"), Meta(0, NULL, "n2"),
      Meta(0, "35", "n1"), Meta(1, NULL, ""), Meta(1, "35", "n2") }

----------------------------------------------------------------------------
(* progressTree.js *)

PAPER1_TOPICS ==
    { "algebra", "algebraic", "polynomial", "quadratic",
      "complex", "complex-numbers", "imaginary",
      "differentiation", "derivative", "diff",
      "integration", "integral", "integrate",
      "sequences", "sequence", "series", "arithmetic", "geometric",
      "sequences-and-series", "sequences-series",
      "financial", "financial-maths", "compound-interest", "annuity",
      "induction", "mathematical-induction", "proof-by-induction" }

\* Names every plain object inherits from Object.prototype: a lookup
\* obj[name] of one of them yields a truthy value that is not an own entry.
ObjectPrototypeKeys ==
    { "constructor", "toString", "toLocaleString", "valueOf", "hasOwnProperty",
      "isPrototypeOf", "propertyIsEnumerable", "__proto__",
      "__defineGetter__", "__defineSetter__", "__lookupGetter__",
      "__lookupSetter__" }

\* String.prototype.toLowerCase on the strings of the model
ToLowerCase(s) == IF s = "Algebra" THEN "algebra" ELSE s

\* a test that takes the empty string for a value
FalsyOnlyUndefined(questionId) == questionId = UNDEFINED_ID

Falsy(questionId) == questionId = UNDEFINED_ID \/ questionId = EMPTY_ID

normalizeTopicFromQuestionId(questionId) ==
    IF Falsy(questionId) THEN "unknown" ELSE questionId[1]

classifyPaper(topicSlug) ==
    IF ToLowerCase(topicSlug) \in PAPER1_TOPICS THEN "paper1" ELSE "paper2"

EmptyTree == [paper1 |-> <<>>, paper2 |-> <<>>]
EmptyTotals == [all |-> 0, paper1 |-> 0, paper2 |-> 0, topics |-> <<>>]

\* new ProgressTree(): the else branch of the constructor
NewProgressTree == [version |-> 1, tree |-> EmptyTree, totals |-> EmptyTotals]

\* a lookup that finds no key
IndexOfNothing(obj, field, k) == 0

\* index of key k among the own entries of object obj (0 when absent)
IndexOf(obj, field, k) ==
    IF \E i \in 1..Len(obj) : obj[i][field] = k
    THEN CHOOSE i \in 1..Len(obj) : obj[i][field] = k
    ELSE 0

\* this.totals.topics[topic] || 0
TopicTotal(totals, topic) ==
    LET i == IndexOf(totals.topics, "topic", topic)
    IN IF i = 0 THEN 0 ELSE totals.topics[i].count

\* this.totals.topics[topic] = n
SetTopicTotal(topicTotals, topic, n) ==
    LET i == IndexOf(topicTotals, "topic", topic)
    IN IF i = 0 THEN Append(topicTotals, [topic |-> topic, count |-> n])
       ELSE [topicTotals EXCEPT ![i].count = n]

\* has() looking the paper up by the topic as written, not lowercased
hasCaseSensitive(p, questionId) ==
    LET topic == normalizeTopicFromQuestionId(questionId)
        paper == IF topic \in PAPER1_TOPICS THEN "paper1" ELSE "paper2"
        topics == p.tree[paper]
        i == IndexOf(topics, "topic", topic)
    IN  /\ i # 0
        /\ IndexOf(topics[i].items, "questionId", questionId) # 0

\* has(questionId)
has(p, questionId) ==
    LET topic == normalizeTopicFromQuestionId(questionId)
        paper == classifyPaper(topic)
        topics == p.tree[paper]
        i == IndexOf(topics, "topic", topic)
    IN  /\ i # 0    \* an inherited node has no items: !!(node && node.items && ..) is false
        /\ IndexOf(topics[i].items, "questionId", questionId) # 0

\* the item stored for questionId, as a sequence of at most one item
StoredItem(p, questionId) ==
    LET topic == normalizeTopicFromQuestionId(questionId)
        topics == p.tree[classifyPaper(topic)]
        i == IndexOf(topics, "topic", topic)
        j == IF i = 0 THEN 0 ELSE IndexOf(topics[i].items, "questionId", questionId)
    IN IF j = 0 THEN <<>> ELSE <<topics[i].items[j]>>

\* the item of a new completion
NewItem(questionId, meta, t) ==
    [questionId |-> questionId,
     completedAt |-> IF meta.completedAt # 0 THEN meta.completedAt ELSE t,
     timeTakenSeconds |-> meta.timeTakenSeconds,
     notes |-> IF meta.notes \in {NULL, ""} THEN "" ELSE meta.notes]

\* the totals with the per-paper counter left out
IncrementTotalsForgetsPaper(totals, paper, topic) ==
    [all |-> totals.all + 1,
     paper1 |-> totals.paper1,
     paper2 |-> totals.paper2,
     topics |-> SetTopicTotal(totals.topics, topic, TopicTotal(totals, topic) + 1)]

\* the totals after one new completion under paper and topic
IncrementTotals(totals, paper, topic) ==
    [all |-> totals.all + 1,
     paper1 |-> totals.paper1 + (IF paper = "paper1" THEN 1 ELSE 0),
     paper2 |-> totals.paper2 + (IF paper = "paper2" THEN 1 ELSE 0),
     topics |-> SetTopicTotal(totals.topics, topic, TopicTotal(totals, topic) + 1)]

\* a destructive update: timeTakenSeconds is overwritten also when absent
MergeMetaDestructive(existing, meta) ==
    [existing EXCEPT
       !.timeTakenSeconds = meta.timeTakenSeconds,
       !.notes = IF meta.notes \notin {NULL, ""} THEN meta.notes ELSE @,
       !.completedAt = IF meta.completedAt # 0 THEN meta.completedAt ELSE @]

\* the update of an existing item's meta (non-destructive)
MergeMeta(existing, meta) ==
    [existing EXCEPT
       !.timeTakenSeconds = IF meta.timeTakenSeconds # NULL
                            THEN meta.timeTakenSeconds ELSE @,
       !.notes = IF meta.notes \notin {NULL, ""} THEN meta.notes ELSE @,
       !.completedAt = IF meta.completedAt # 0 THEN meta.completedAt ELSE @]

\* addAttempt(questionId, meta) at time t: the tree afterwards and the
\* value returned ("true", "false") or "TypeError" when the call throws
addAttempt(p, questionId, meta, t) ==
    IF Falsy(questionId) THEN [pt |-> p, ret |-> "false"]
    ELSE
    LET topic == normalizeTopicFromQuestionId(questionId)
        paper == classifyPaper(topic)
        topics0 == p.tree[paper]
        i0 == IndexOf(topics0, "topic", topic)
    IN
    IF i0 = 0 /\ topic \in ObjectPrototypeKeys
    THEN \* topics[topic] is inherited and truthy, it has no items:
         \* topicNode.items[questionId] throws
         [pt |-> p, ret |-> "TypeError"]
    ELSE
    LET topics == IF i0 = 0
                  THEN Append(topics0, [topic |-> topic, items |-> <<>>])
                  ELSE topics0
        i == IF i0 = 0 THEN Len(topics) ELSE i0
        items == topics[i].items
        j == IndexOf(items, "questionId", questionId)
    IN
    IF j = 0
    THEN [pt |-> [p EXCEPT
                    !.tree[paper] =
                        [topics EXCEPT
                           ![i].items = Append(items, NewItem(questionId, meta, t))],
                    !.totals = IncrementTotals(p.totals, paper, topic)],
          ret |-> "true"]
    ELSE [pt |-> [p EXCEPT
                    !.tree[paper] =
                        [topics EXCEPT ![i].items[j] = MergeMeta(items[j], meta)]],
          ret |-> "false"]

topicCount(p, topic) == TopicTotal(p.totals, topic)
paperCount(p, paper) == p.totals[paper]
totalCount(p) == p.totals.all

\* The value of a canonical array-index string ("0", "7", "1001"), -1 for
\* every other string: own keys that are array indices are enumerated first.
ArrayIndex(s) ==
    CASE s = "7" -> 7
      [] s = "1001" -> 1001
      [] OTHER -> 0 - 1

TopicKeyIndex(node) == ArrayIndex(node.topic)
ItemKeyIndex(item) ==
    IF Len(item.questionId) = 1 THEN ArrayIndex(item.questionId[1]) ELSE 0 - 1

\* Object.entries(obj), keyIndex[i] being the array index of the i-th own
\* key (-1 when it is none): array-index keys ascending, then the other
\* keys in creation order
ObjectEntries(obj, keyIndex) ==
    LET idx == {i \in 1..Len(obj) : keyIndex[i] >= 0}
        named == {i \in 1..Len(obj) : keyIndex[i] < 0}
        Rank(i) == IF i \in idx
                   THEN Cardinality({j \in idx : keyIndex[j] < keyIndex[i]})
                   ELSE Cardinality(idx) + Cardinality({j \in named : j < i})
    IN [n \in 1..Len(obj) |-> obj[CHOOSE i \in 1..Len(obj) : Rank(i) = n - 1]]

TopicEntries(topics) ==
    ObjectEntries(topics, [i \in 1..Len(topics) |-> TopicKeyIndex(topics[i])])

ItemEntries(items) ==
    ObjectEntries(items, [i \in 1..Len(items) |-> ItemKeyIndex(items[i])])

\* the records pushed for the items of one topic node
ItemRecords(node, paper) ==
    LET entries == ItemEntries(node.items)
    IN [k \in 1..Len(entries) |->
          [questionId |-> entries[k].questionId,
           completedAt |-> entries[k].completedAt,
           timeTakenSeconds |-> entries[k].timeTakenSeconds,
           notes |-> entries[k].notes,
           topic |-> node.topic,
           paper |-> paper]]

RECURSIVE TopicRecords(_, _)
TopicRecords(nodes, paper) ==
    IF nodes = <<>> THEN <<>>
    ELSE ItemRecords(Head(nodes), paper) \o TopicRecords(Tail(nodes), paper)

\* the records of paper1 alone
PaperRecordsPaper1Only(p) ==
    TopicRecords(TopicEntries(p.tree.paper1), "paper1")

\* the records of both papers, paper1 first
PaperRecords(p) ==
    TopicRecords(TopicEntries(p.tree.paper1), "paper1")
    \o TopicRecords(TopicEntries(p.tree.paper2), "paper2")

\* new Date(completedAt || 0).getTime()
SortKey(a) == a.completedAt

\* out.sort((a,b) => time(b) - time(a)): a stable sort, newest first
RECURSIVE SortNewestFirst(_)
SortNewestFirst(out) ==
    IF out = <<>> THEN <<>>
    ELSE LET n == Len(out)
             x == out[n]
             sorted == SortNewestFirst(SubSeq(out, 1, n - 1))
             \* x goes behind every record that is as new or newer
             k == Cardinality({i \in 1..Len(sorted) : SortKey(sorted[i]) >= SortKey(x)})
         IN SubSeq(sorted, 1, k) \o <<x>> \o SubSeq(sorted, k + 1, Len(sorted))

toAttemptsArray(p) == SortNewestFirst(PaperRecords(p))

\* a[f], undefined (here: d) when the record has no such field
Field(a, f, d) == IF f \in DOMAIN a THEN a[f] ELSE d

\* the meta fromAttempts passes to addAttempt for attempt a
AttemptMeta(a) ==
    LET tts == Field(a, "timeTakenSeconds", NULL)
        c1 == Field(a, "completedAt", 0)
        c2 == Field(a, "timestamp", 0)
        nt == Field(a, "notes", NULL)
    IN [timeTakenSeconds |-> IF tts # NULL THEN tts ELSE Field(a, "timeTaken", NULL),
        notes |-> IF nt \in {NULL, ""} THEN "" ELSE nt,
        completedAt |-> IF c1 # 0 THEN c1
                        ELSE IF c2 # 0 THEN c2 ELSE Field(a, "lastUpdatedAt", 0)]

\* the forEach of fromAttempts from tree p on; a throwing addAttempt ends it
RECURSIVE Replay(_, _, _)
Replay(p, attempts, t) ==
    IF attempts = <<>> THEN [pt |-> p, ret |-> "ok"]
    ELSE LET a == Head(attempts)
             r == addAttempt(p, a.questionId, AttemptMeta(a), t)
         IN IF r.ret = "TypeError" THEN [pt |-> r.pt, ret |-> "TypeError"]
            ELSE Replay(r.pt, Tail(attempts), t)

\* ProgressTree.fromAttempts(attempts) at time t
fromAttempts(attempts, t) == Replay(NewProgressTree, attempts, t)

\* toJSON(): a JavaScript object with the three fields
toJSON(p) == [type |-> "object", version |-> p.version, tree |-> p.tree,
              totals |-> p.totals]

\* the constructor testing a field the snapshot does not have
ProgressTreeOfWrongField(data) ==
    IF "tree" \in DOMAIN data /\ "total" \in DOMAIN data
    THEN [version |-> data.version, tree |-> data.tree, totals |-> data.totals]
    ELSE NewProgressTree

\* new ProgressTree(data) for an object data (objects are truthy; a field
\* that is absent is undefined)
ProgressTreeOf(data) ==
    IF "tree" \in DOMAIN data /\ "totals" \in DOMAIN data
    THEN [version |-> IF "version" \in DOMAIN data /\ data.version # 0
                      THEN data.version ELSE 1,
          tree |-> data.tree,
          totals |-> data.totals]
    ELSE NewProgressTree

\* restoreProgressTree(raw)
restoreProgressTree(raw) ==
    IF raw.type = "object" THEN ProgressTreeOf(raw) ELSE NewProgressTree

\* the values handed to restoreProgressTree: null, a string, an object
\* without tree, an object without totals, an object whose tree has no
\* paper1 map, an object whose totals have no topics map
RawSnapshots ==
    { [type |-> "null"],
      [type |-> "string"],
      [type |-> "object", totals |-> EmptyTotals],
      [type |-> "object", tree |-> EmptyTree],
      [type |-> "object", tree |-> [paper2 |-> <<>>], totals |-> EmptyTotals],
      [type |-> "object", tree |-> EmptyTree,
       totals |-> [all |-> 0, paper1 |-> 0, paper2 |-> 0]] }

\* raw is an object with the shape toJSON() writes
WellFormedSnapshot(raw) ==
    /\ raw.type = "object"
    /\ "tree" \in DOMAIN raw
    /\ "totals" \in DOMAIN raw
    /\ DOMAIN raw.tree = {"paper1", "paper2"}
    /\ DOMAIN raw.totals = {"all", "paper1", "paper2", "topics"}

\* this.tree[paper] is undefined, so this.tree[paper].topics throws
LacksPaper(p, questionId) ==
    classifyPaper(normalizeTopicFromQuestionId(questionId)) \notin DOMAIN p.tree

\* has(questionId) on a tree that may lack a paper map
hasOn(p, questionId) ==
    IF LacksPaper(p, questionId) THEN "TypeError"
    ELSE IF has(p, questionId) THEN "true" ELSE "false"

\* the three counters of totals
Counters(totals) ==
    [all |-> totals.all, paper1 |-> totals.paper1, paper2 |-> totals.paper2]

\* addAttempt(questionId, meta) at time t on a tree that may lack a paper map
\* or the topics map of the totals: without the paper map line 63 throws;
\* without totals.topics a new item is stored and the counters of lines
\* 75-76 are incremented before line 77 throws
addAttemptOn(p, questionId, meta, t) ==
    IF Falsy(questionId) THEN [pt |-> p, ret |-> "false"]
    ELSE IF LacksPaper(p, questionId) THEN [pt |-> p, ret |-> "TypeError"]
    ELSE IF "topics" \in DOMAIN p.totals THEN addAttempt(p, questionId, meta, t)
    ELSE
    LET r == addAttempt([p EXCEPT !.totals =
                            [all |-> p.totals.all, paper1 |-> p.totals.paper1,
                             paper2 |-> p.totals.paper2, topics |-> <<>>]],
                        questionId, meta, t)
    IN [pt |-> [r.pt EXCEPT !.totals = Counters(r.pt.totals)],
        ret |-> IF r.ret = "true" THEN "TypeError" ELSE r.ret]

----------------------------------------------------------------------------
(* UserModel: the verification codes of the database file.                 *)
(* A stored code string is [len, text]: a raw 6-digit code c is            *)
(* [len |-> 6, text |-> <<c>>], the hex digest of the HMAC of "type:c" is  *)
(* [len |-> 64, text |-> <<"hmac", type, c>>] (HMAC taken as injective).   *)
(* A numeric field that is absent from an entry is 0.                      *)

MaxEntries == 1

expiryMinutes == 15
cooldownSeconds == 90
MAX_CODE_ATTEMPTS == 5
LegacyExpiryMinutes == 15

Emails == {"User@Example.com"}
Types == {"email_verification"}
RawCodes == {"111111", "222222"}
\* the salts a call of the cipher may draw
Salts == {"salt1", "salt2"}
\* the instants at which calls are made (milliseconds): the start, half a
\* cooldown and a whole cooldown later, and a code lifetime after the start
Instants == {1, 45001, 90001, 900001}

\* email.toLowerCase()
EmailToLowerCase(email) ==
    IF email = "User@Example.com" THEN "user@example.com" ELSE email

\* CryptoJS.AES.encrypt(text, passphrase).toString(): the key and IV are
\* derived from the passphrase and a salt drawn at random for each call,
\* and the salt is part of the ciphertext
encryptEmail(email, salt) == [plain |-> EmailToLowerCase(email), salt |-> salt]

decryptEmail(encryptedEmail) == encryptedEmail.plain

RawString(code) == [len |-> 6, text |-> <<code>>]

hashCode(code, type) == [len |-> 64, text |-> <<"hmac", type, code>>]

\* Array.prototype.find: the index of the first element whose test holds,
\* flags[i] being the test of the i-th element; 0 if there is none
FindIndex(flags) ==
    IF \E i \in 1..Len(flags) : flags[i]
    THEN CHOOSE i \in 1..Len(flags) :
            /\ flags[i]
            /\ \A j \in 1..(i - 1) : ~flags[j]
    ELSE 0

\* storeVerificationCode(email, code, type) at time t, encryptedEmail being
\* this call's ciphertext: the entries written and the raw code returned
storeVerificationCode(vcs, encryptedEmail, code, type, t) ==
    LET Unexpired(vc) == vc.expiresAt > t
        vcs1 == SelectSeq(vcs, Unexpired)
        Recent(vc) == /\ vc.email = encryptedEmail
                      /\ vc.type = type
                      /\ ~vc.used
                      /\ (t - vc.createdAt) < cooldownSeconds * 1000
        k == FindIndex([i \in 1..Len(vcs1) |-> Recent(vcs1[i])])
        finalCode == IF k # 0 /\ vcs1[k].code.len = 6
                     THEN vcs1[k].code.text[1]     \* raw legacy code stored
                     ELSE code
        Other(vc) == ~(vc.email = encryptedEmail /\ vc.type = type)
        verificationEntry ==
            [email |-> encryptedEmail,
             code |-> hashCode(finalCode, type),
             type |-> type,
             createdAt |-> t,
             expiresAt |-> t + expiryMinutes * 60 * 1000,
             used |-> FALSE,
             attempts |-> 0,
             maxAttempts |-> MAX_CODE_ATTEMPTS]
    IN [codes |-> Append(SelectSeq(vcs1, Other), verificationEntry),
        raw |-> finalCode]

\* verifyCode without the lockout of lines 245-247
verifyCodeNoLockout(vcs, encryptedEmail, code, type, t) ==
    LET Live(vc) == /\ vc.email = encryptedEmail
                    /\ vc.type = type
                    /\ ~vc.used
                    /\ vc.expiresAt > t
        k == FindIndex([i \in 1..Len(vcs) |-> Live(vcs[i])])
    IN IF k = 0 THEN [codes |-> vcs, ret |-> FALSE]
       ELSE
       LET entry == vcs[k]
           match == \/ entry.code = hashCode(code, type)
                    \/ (entry.code.len = 6 /\ entry.code = RawString(code))
       IN IF ~match
          THEN [codes |-> [vcs EXCEPT ![k].attempts = entry.attempts + 1],
                ret |-> FALSE]
          ELSE [codes |-> [vcs EXCEPT ![k].used = TRUE], ret |-> TRUE]

\* verifyCode without the !vc.used test of line 237
verifyCodeIgnoresUsed(vcs, encryptedEmail, code, type, t) ==
    LET Live(vc) == /\ vc.email = encryptedEmail
                    /\ vc.type = type
                    /\ vc.expiresAt > t
        k == FindIndex([i \in 1..Len(vcs) |-> Live(vcs[i])])
    IN IF k = 0 THEN [codes |-> vcs, ret |-> FALSE]
       ELSE
       LET entry == vcs[k]
           match == \/ entry.code = hashCode(code, type)
                    \/ (entry.code.len = 6 /\ entry.code = RawString(code))
           attempts == entry.attempts + 1
           limit == IF entry.maxAttempts # 0 THEN entry.maxAttempts ELSE 5
       IN IF ~match
          THEN [codes |-> [vcs EXCEPT ![k].attempts = attempts,
                                      ![k].used = (attempts >= limit)],
                ret |-> FALSE]
          ELSE [codes |-> [vcs EXCEPT ![k].used = TRUE], ret |-> TRUE]

\* verifyCode without the vc.type === type test of line 237
verifyCodeAnyPurpose(vcs, encryptedEmail, code, type, t) ==
    LET Live(vc) == /\ vc.email = encryptedEmail
                    /\ ~vc.used
                    /\ vc.expiresAt > t
        k == FindIndex([i \in 1..Len(vcs) |-> Live(vcs[i])])
    IN IF k = 0 THEN [codes |-> vcs, ret |-> FALSE]
       ELSE
       LET entry == vcs[k]
           match == \/ entry.code = hashCode(code, type)
                    \/ (entry.code.len = 6 /\ entry.code = RawString(code))
           attempts == entry.attempts + 1
           limit == IF entry.maxAttempts # 0 THEN entry.maxAttempts ELSE 5
       IN IF ~match
          THEN [codes |-> [vcs EXCEPT ![k].attempts = attempts,
                                      ![k].used = (attempts >= limit)],
                ret |-> FALSE]
          ELSE [codes |-> [vcs EXCEPT ![k].used = TRUE], ret |-> TRUE]

\* verifyCode(email, code, type) at time t, encryptedEmail being this call's
\* ciphertext: the entries afterwards and the value returned
verifyCode(vcs, encryptedEmail, code, type, t) ==
    LET Live(vc) == /\ vc.email = encryptedEmail
                    /\ vc.type = type
                    /\ ~vc.used
                    /\ vc.expiresAt > t
        k == FindIndex([i \in 1..Len(vcs) |-> Live(vcs[i])])
    IN IF k = 0 THEN [codes |-> vcs, ret |-> FALSE]
       ELSE
       LET entry == vcs[k]
           match == \/ entry.code = hashCode(code, type)
                    \/ (entry.code.len = 6 /\ entry.code = RawString(code))
           attempts == entry.attempts + 1
           limit == IF entry.maxAttempts # 0 THEN entry.maxAttempts ELSE 5
       IN IF ~match
          THEN [codes |-> [vcs EXCEPT ![k].attempts = attempts,
                                      ![k].used = (attempts >= limit)],
                ret |-> FALSE]
          ELSE [codes |-> [vcs EXCEPT ![k].used = TRUE], ret |-> TRUE]

\* a cleanup that keeps the entries expiring at this very instant
cleanupExpiredCodesKeepsBoundary(vcs, t) ==
    LET Unexpired(vc) == vc.expiresAt >= t
    IN SelectSeq(vcs, Unexpired)

\* cleanupExpiredCodes() at time t
cleanupExpiredCodes(vcs, t) ==
    LET Unexpired(vc) == vc.expiresAt > t
    IN SelectSeq(vcs, Unexpired)

\* storeVerificationCode of the earlier revision (database/users.js): every
\* code of the email is removed and the raw code is stored
legacyStoreVerificationCode(vcs, encryptedEmail, code, type, t) ==
    LET OtherEmail(vc) == vc.email # encryptedEmail
        verificationEntry ==
            [email |-> encryptedEmail,
             code |-> RawString(code),
             type |-> type,
             createdAt |-> t,
             expiresAt |-> t + LegacyExpiryMinutes * 60 * 1000,
             used |-> FALSE,
             attempts |-> 0,
             maxAttempts |-> 0]
    IN [codes |-> Append(SelectSeq(vcs, OtherEmail), verificationEntry),
        raw |-> code]

----------------------------------------------------------------------------
(* The Express application: middleware and routes *)

\* the ids of the questions in data/questions.json
FileQuestionIds == {"q1", "q2"}

ACCESS_SECRET == "access-secret"
REFRESH_SECRET == "refresh-secret"

AccessLifetime == 15 * 60 * 1000
RefreshLifetime == 7 * 24 * 60 * 60 * 1000

\* jwt.sign(payload, key, {expiresIn}): the payload, the key it is signed
\* with and the instant it expires
Jwt(sub, type, key, exp) ==
    [jwt |-> "signed", sub |-> sub, type |-> type, key |-> key, exp |-> exp]

\* no cookie; a cookie that is no JWT
NoToken == [jwt |-> "none"]
MalformedToken == [jwt |-> "invalid"]

\* jwt.verify(token, secret) at time t returns the payload (TRUE) or throws
jwtVerify(token, secret, t) ==
    /\ token.jwt = "signed"
    /\ token.key = secret
    /\ t < token.exp

\* generateTokens(userId) at time t
generateTokens(userId, t) ==
    [accessToken |-> Jwt(userId, "access", ACCESS_SECRET, t + AccessLifetime),
     refreshToken |-> Jwt(userId, "refresh", REFRESH_SECRET, t + RefreshLifetime)]

\* verifyRefreshToken that does not look at the type
verifyRefreshTokenAnyType(token, t) ==
    IF jwtVerify(token, REFRESH_SECRET, t)
    THEN [thrown |-> FALSE, sub |-> token.sub]
    ELSE [thrown |-> TRUE, sub |-> 0]

\* verifyRefreshToken(token) at time t: payload.sub, or the call throws
verifyRefreshToken(token, t) ==
    IF jwtVerify(token, REFRESH_SECRET, t) /\ token.type = "refresh"
    THEN [thrown |-> FALSE, sub |-> token.sub]
    ELSE [thrown |-> TRUE, sub |-> 0]

\* the access token a request carries: none, one jwt.verify rejects, one
\* generateTokens has issued
Tokens == {NoToken, MalformedToken, generateTokens(1, 1).accessToken}

\* middleware/auth.js verifyToken at time t: the status it answers and the
\* req.userId it sets; status 0 when it calls next(), userId 0 when unset
verifyToken(token, t) ==
    IF token = NoToken
    THEN [status |-> 401, error |-> "Not authenticated", userId |-> 0]
    ELSE IF ~jwtVerify(token, ACCESS_SECRET, t)
    THEN [status |-> 401, error |-> "Invalid or expired token", userId |-> 0]
    ELSE IF token.type # "access"
    THEN [status |-> 401, error |-> "Invalid token", userId |-> 0]
    ELSE [status |-> 0, error |-> "", userId |-> token.sub]

\* the middleware registered in front of the handler of each route, in
\* routes/questions.js, routes/topics.js and routes/progress.js (server.js
\* mounts the three routers without middleware of its own that ends a
\* request)
RouteMiddleware(route) ==
    CASE route = "GET /api/questions" -> <<>>
      [] route = "GET /api/questions/all" -> <<>>
      [] route = "GET /api/questions/:id" -> <<>>
      [] route = "PATCH /api/questions/:id" -> <<>>
      [] route = "POST /api/questions/reset" -> <<>>
      [] route = "GET /api/topics" -> <<>>
      [] route = "GET /api/topics/questions" -> <<>>
      [] route = "POST /api/topics/questions" -> <<>>
      [] route = "GET /api/topics/available" -> <<>>
      [] route = "GET /api/progress" -> <<"verifyToken">>

\* the routes of the questions and topics routers
QuestionRoutes ==
    {"GET /api/questions", "GET /api/questions/all", "GET /api/questions/:id",
     "PATCH /api/questions/:id", "POST /api/questions/reset"}
TopicRoutes ==
    {"GET /api/topics", "GET /api/topics/questions",
     "POST /api/topics/questions", "GET /api/topics/available"}

\* the status with which the middleware of a route ends the request, 0 when
\* all of it calls next() and the handler runs
RECURSIVE RunMiddleware(_, _, _)
RunMiddleware(middleware, token, t) ==
    IF middleware = <<>> THEN 0
    ELSE LET status == IF Head(middleware) = "verifyToken"
                       THEN verifyToken(token, t).status ELSE 0
         IN IF status # 0 THEN status
            ELSE RunMiddleware(Tail(middleware), token, t)

Response(route, token, status, handlerRan, body) ==
    [route |-> route, token |-> token, status |-> status,
     handlerRan |-> handlerRan, body |-> body]

NoRequest == Response("none", NoToken, 0, FALSE, "none")

\* the email, the name and the code of a request body; NULL when missing
BodyEmails == {NULL, "invalid-email", "User@Example.com"}
BodyNames == {NULL, "Test User"}
BodyCodes == {NULL} \cup RawCodes

MaxUsers == 2

\* /^[^\s@]+@[^\s@]+\.[^\s@]+$/.test(email)
EmailFormatValid(email) ==
    CASE email = "User@Example.com" -> TRUE
      [] email = "user@example.com" -> TRUE
      [] email = "invalid-email" -> FALSE
      [] OTHER -> FALSE

\* UserModel.findUserByEmail: the index of the first user whose stored
\* ciphertext equals encryptedEmail, 0 when there is none
findUserByEmail(us, encryptedEmail) ==
    FindIndex([i \in 1..Len(us) |-> us[i].email = encryptedEmail])

\* UserModel.createUser(userData), the fields the routes use
createUser(us, encryptedEmail, name) ==
    Append(us, [id |-> Len(us) + 1,
                email |-> encryptedEmail,
                name |-> IF name = NULL THEN "" ELSE name,
                emailVerified |-> TRUE])

AuthResponse(route, email, name, code, status, error, stored, mailed, verifyCalled, verified, created, cookies) ==
    [route |-> route, email |-> email, name |-> name, code |-> code,
     status |-> status,
     error |-> error, stored |-> stored, mailed |-> mailed,
     verifyCalled |-> verifyCalled, verified |-> verified,
     created |-> created, cookies |-> cookies]

\* router.post('/signup'): the users, the codes and the response after a
\* request with body {email, name}; findUserByEmail and
\* storeVerificationCode each encrypt the address anew (saltFind, saltStore),
\* code is the one generateVerificationCode draws, mailOk tells whether
\* sendVerificationEmail resolves
signupRoute(us, vcs, email, name, saltFind, saltStore, code, mailOk, t) ==
    LET R(status, error, stored, mailed) ==
            AuthResponse("POST /auth/signup", email, name, NULL, status, error,
                         stored, mailed, FALSE, FALSE, FALSE, FALSE)
    IN
    IF email = NULL \/ name = NULL
    THEN [users |-> us, codes |-> vcs,
          res |-> R(400, "Email and name are required", FALSE, FALSE)]
    ELSE IF ~EmailFormatValid(email)
    THEN [users |-> us, codes |-> vcs,
          res |-> R(400, "Invalid email format", FALSE, FALSE)]
    ELSE IF findUserByEmail(us, encryptEmail(email, saltFind)) # 0
    THEN [users |-> us, codes |-> vcs,
          res |-> R(409, "User already exists with this email", FALSE, FALSE)]
    ELSE
    LET r == storeVerificationCode(vcs, encryptEmail(email, saltStore), code,
                                   "email_verification", t)
    IN IF mailOk
       THEN [users |-> us, codes |-> r.codes, res |-> R(200, "", TRUE, TRUE)]
       ELSE [users |-> us, codes |-> r.codes,
             res |-> R(500, "Internal server error", TRUE, FALSE)]

\* router.post('/resend-code'): the codes and the response after a request
\* with body {email} (type defaults to 'email_verification'); the route
\* does not look the user up
resendCodeRoute(us, vcs, email, type, saltStore, code, mailOk, t) ==
    LET R(status, error, stored, mailed) ==
            AuthResponse("POST /auth/resend-code", email, NULL, NULL, status,
                         error, stored, mailed, FALSE, FALSE, FALSE, FALSE)
    IN
    IF email = NULL
    THEN [users |-> us, codes |-> vcs,
          res |-> R(400, "Email is required", FALSE, FALSE)]
    ELSE
    LET r == storeVerificationCode(vcs, encryptEmail(email, saltStore), code,
                                   type, t)
    IN IF mailOk
       THEN [users |-> us, codes |-> r.codes, res |-> R(200, "", TRUE, TRUE)]
       ELSE [users |-> us, codes |-> r.codes,
             res |-> R(500, "Internal server error", TRUE, FALSE)]

\* the route creating the user whatever verifyCode returned
verifyEmailRouteIgnoresResult(us, vcs, email, code, name, saltVerify, saltCreate, t) ==
    LET R(status, error, verifyCalled, verified, created) ==
            AuthResponse("POST /auth/verify-email", email, name, code, status, error,
                         FALSE, FALSE, verifyCalled, verified, created, created)
    IN
    IF email = NULL \/ code = NULL
    THEN [users |-> us, codes |-> vcs,
          res |-> R(400, "Email and verification code are required",
                    FALSE, FALSE, FALSE)]
    ELSE
    LET r == verifyCode(vcs, encryptEmail(email, saltVerify), code,
                        "email_verification", t)
    IN [users |-> createUser(us, encryptEmail(email, saltCreate), name),
        codes |-> r.codes,
        res |-> R(201, "", TRUE, r.ret, TRUE)]

\* router.post('/verify-email'): the users, the codes and the response after
\* a request with body {email, code, name}; verifyCode and createUser each
\* encrypt the address anew (saltVerify, saltCreate)
verifyEmailRoute(us, vcs, email, code, name, saltVerify, saltCreate, t) ==
    LET R(status, error, verifyCalled, verified, created) ==
            AuthResponse("POST /auth/verify-email", email, name, code, status, error,
                         FALSE, FALSE, verifyCalled, verified, created, created)
    IN
    IF email = NULL \/ code = NULL
    THEN [users |-> us, codes |-> vcs,
          res |-> R(400, "Email and verification code are required",
                    FALSE, FALSE, FALSE)]
    ELSE
    LET r == verifyCode(vcs, encryptEmail(email, saltVerify), code,
                        "email_verification", t)
    IN IF ~r.ret
       THEN [users |-> us, codes |-> r.codes,
             res |-> R(400, "Invalid or expired verification code",
                       TRUE, FALSE, FALSE)]
       ELSE [users |-> createUser(us, encryptEmail(email, saltCreate), name),
             codes |-> r.codes,
             res |-> R(201, "", TRUE, TRUE, TRUE)]

----------------------------------------------------------------------------
(* UserModel: the progress of a user in the database file.                 *)
(* The file is read whole (readDatabase) and written whole (writeDatabase); *)
(* of its content the model keeps the progress and the stats of one user.  *)

\* the requests in flight
Procs == {1, 2}

\* the questionIds and notes of the requests
StoreQuestionIds == {<<"alg", "1001">>, <<"geo", "1001">>}
StoreNotes == {"", "n1"}

\* progressTree absent from the stored user
NoSnapshot == [type |-> "undefined"]

\* the user as createUser stores it
NewUserProgress ==
    [attempts |-> <<>>, progressTree |-> NoSnapshot, questionsAnswered |-> 0]

IdleProc ==
    [pc |-> "idle", db |-> NewUserProgress, questionId |-> UNDEFINED_ID,
     notes |-> "", readAt |-> 0, wroteAt |-> 0, ret |-> "none"]

\* writeDatabase(data) merging the attempts of the file into data
writeDatabaseMerging(file, data) ==
    LET Missing(a) == \A i \in 1..Len(data.attempts) :
                         data.attempts[i].questionId # a.questionId
    IN [data EXCEPT !.attempts = SelectSeq(file.attempts, Missing) \o data.attempts]

\* writeDatabase(data): the file after fs.writeFile, whatever it held
writeDatabase(file, data) == data

\* readDatabase(): the parsed file with the migration of lines 69-86 applied
\* (a user without progressTree is given the tree of the attempts) and
\* whether anything was migrated
readDatabase(file, t) ==
    IF file.progressTree = NoSnapshot
    THEN [parsed |-> [file EXCEPT !.progressTree =
                         toJSON(fromAttempts(file.attempts, t).pt)],
          migrated |-> TRUE]
    ELSE [parsed |-> file, migrated |-> FALSE]

\* addOrUpdateAttempt pushing a new attempt whether or not one is stored
addOrUpdateAttemptAlwaysPushes(db, questionId, timeTakenSeconds, notes, t) ==
    LET snapshot == IF db.progressTree = NoSnapshot
                    THEN toJSON(fromAttempts(db.attempts, t).pt)
                    ELSE db.progressTree
        r == addAttempt(restoreProgressTree(snapshot), questionId,
                        Meta(t, timeTakenSeconds, notes), t)
    IN [db EXCEPT !.attempts =
                     Append(@, [questionId |-> questionId,
                                completedAt |-> t,
                                lastUpdatedAt |-> t,
                                timeTakenSeconds |-> timeTakenSeconds,
                                notes |-> notes]),
                  !.questionsAnswered = @ + 1,
                  !.progressTree = toJSON(r.pt)]

\* the lines of addOrUpdateAttempt between readDatabase and writeDatabase:
\* the user of db with the attempt for questionId added or updated
addOrUpdateAttempt(db, questionId, timeTakenSeconds, notes, t) ==
    LET snapshot == IF db.progressTree = NoSnapshot
                    THEN toJSON(fromAttempts(db.attempts, t).pt)
                    ELSE db.progressTree
        tree == restoreProgressTree(snapshot)
        k == IndexOf(db.attempts, "questionId", questionId)
    IN IF k # 0
       THEN LET existing == db.attempts[k]
                updated == [existing EXCEPT
                              !.lastUpdatedAt = t,
                              !.timeTakenSeconds =
                                  IF timeTakenSeconds # NULL
                                  THEN timeTakenSeconds ELSE @,
                              !.notes = IF notes \notin {NULL, ""} THEN notes ELSE @]
                r == addAttempt(tree, questionId,
                                Meta(IF existing.completedAt # 0
                                     THEN existing.completedAt ELSE t,
                                     timeTakenSeconds, notes), t)
            IN [db EXCEPT !.attempts[k] = updated,
                          !.progressTree = toJSON(r.pt)]
       ELSE LET r == addAttempt(tree, questionId,
                                Meta(t, timeTakenSeconds, notes), t)
            IN [db EXCEPT !.attempts =
                             Append(@, [questionId |-> questionId,
                                        completedAt |-> t,
                                        lastUpdatedAt |-> t,
                                        timeTakenSeconds |-> timeTakenSeconds,
                                        notes |-> notes]),
                          !.questionsAnswered = @ + 1,
                          !.progressTree = toJSON(r.pt)]

\* tree.addAttempt in addOrUpdateAttempt throws (a topic that is a name of
\* Object.prototype): the call rejects before writeDatabase
addOrUpdateAttemptThrows(db, questionId, t) ==
    LET snapshot == IF db.progressTree = NoSnapshot
                    THEN toJSON(fromAttempts(db.attempts, t).pt)
                    ELSE db.progressTree
    IN addAttempt(restoreProgressTree(snapshot), questionId,
                  Meta(t, NULL, ""), t).ret = "TypeError"

\* the questionIds the routes pass on (they answer 400 without one), among
\* them one with an uppercase topic and one whose topic is a name of
\* Object.prototype
UserQuestionIds ==
    StoreQuestionIds \cup {<<"Algebra", "7">>, <<"constructor", "1">>}

\* the questionIds of the attempts of a stored user
AttemptIds(db) == {db.attempts[i].questionId : i \in 1..Len(db.attempts)}

\* hasCompleted(userId, questionId) on the parsed database: the tree first,
\* the attempts list as the fallback
hasCompleted(db, questionId) ==
    \/ /\ db.progressTree # NoSnapshot
       /\ has(restoreProgressTree(db.progressTree), questionId)
    \/ questionId \in AttemptIds(db)

\* an attempt of the flat list of an earlier revision, as fromAttempts reads
\* it: the date under timestamp, no completedAt and no lastUpdatedAt
LegacyAttempt(questionId, timestamp, notes) ==
    [questionId |-> questionId, completedAt |-> 0, lastUpdatedAt |-> 0,
     timestamp |-> timestamp, timeTakenSeconds |-> NULL, notes |-> notes]

\* the stored users that have a flat attempts list and no progressTree yet
LegacyUserProgress ==
    { [attempts |-> <<LegacyAttempt(<<"alg", "1001">>, 1, "")>>,
       progressTree |-> NoSnapshot, questionsAnswered |-> 1],
      [attempts |-> <<LegacyAttempt(<<"geo", "1001">>, 1, "n1"),
                      LegacyAttempt(<<"alg", "1001">>, 1, "")>>,
       progressTree |-> NoSnapshot, questionsAnswered |-> 2] }

----------------------------------------------------------------------------
(* Actions on one ProgressTree *)

NoCall == [op |-> "none", questionId |-> UNDEFINED_ID,
           meta |-> [completedAt |-> 0, timeTakenSeconds |-> NULL, notes |-> NULL],
           existing |-> <<>>, ret |-> "none"]

\* the pair whose history is recorded
TrackedEmail == "user@example.com"
TrackedType == "email_verification"

Tracked(email, type) ==
    EmailToLowerCase(email) = TrackedEmail /\ type = TrackedType

CodeCall(op, code, type, ret) ==
    [op |-> op, type |-> type, code |-> code, ret |-> ret]

NoCodeCall ==
    [op |-> "none", type |-> "email_verification", code |-> NULL, ret |-> "none"]

\* a fresh tree
InitTree ==
    /\ pt = NewProgressTree
    /\ now = 1
    /\ last = NoCall
    /\ calledIds = {}
    /\ nCalls = 0
    /\ added = {}

\* a database file without verification codes (initDatabase)
InitNoCodes ==
    /\ codes = <<>>
    /\ lastC = NoCodeCall
    /\ issuedRaw = NULL
    /\ wrongRun = 0
    /\ consumed = FALSE

\* the database file as the earlier revision left it: one code just issued
\* by its storeVerificationCode
InitLegacyCode ==
    \E email \in Emails, code \in RawCodes, type \in Types, salt \in Salts :
        LET r == legacyStoreVerificationCode(<<>>, encryptEmail(email, salt),
                                             code, type, now)
        IN /\ codes = r.codes
           /\ lastC = CodeCall("legacyStoreVerificationCode", code, type, r.raw)
           /\ issuedRaw = IF Tracked(email, type) THEN r.raw ELSE NULL
           /\ wrongRun = 0
           /\ consumed = FALSE

\* no request was made yet: no question is complete, nobody has signed up
InitApp ==
    /\ questionsFile = [q \in FileQuestionIds |-> FALSE]
    /\ users = <<>>
    /\ lastR = NoRequest

\* the database file as createUser leaves it (progress: { attempts: [] }),
\* no call in flight
InitStore ==
    /\ dbFile = NewUserProgress
    /\ procs = [p \in Procs |-> IdleProc]
    /\ nWrites = 0

Init == InitTree /\ InitNoCodes /\ InitApp /\ InitStore

InitCodes == InitTree /\ (InitNoCodes \/ InitLegacyCode) /\ InitApp /\ InitStore

\* tree.addAttempt(questionId, meta)
AddAttempt ==
    /\ nCalls < MaxCalls
    /\ \E questionId \in QuestionIds, meta \in Metas :
         LET r == addAttempt(pt, questionId, meta, now)
         IN /\ pt' = r.pt
            /\ last' = [op |-> "addAttempt", questionId |-> questionId,
                        meta |-> meta,
                        existing |-> StoredItem(pt, questionId), ret |-> r.ret]
            /\ calledIds' = calledIds \cup {questionId}
            /\ nCalls' = nCalls + 1
            /\ added' = IF r.ret = "true" THEN added \cup {questionId} ELSE added
    /\ UNCHANGED <<now, codeVars, appVars, storeVars>>

\* time passes
TreeTick ==
    /\ now < MaxTreeNow
    /\ now' = now + 1
    /\ UNCHANGED <<treeVars, codeVars, appVars, storeVars>>

NextTree == AddAttempt \/ TreeTick

SpecTree == Init /\ [][NextTree]_vars

----------------------------------------------------------------------------
(* Actions on a ProgressTree that is restored from stored values *)

RestoreCall(op, questionId, meta, existing, ret, raw) ==
    [op |-> op, questionId |-> questionId, meta |-> meta,
     existing |-> existing, ret |-> ret, raw |-> raw]

\* pt = restoreProgressTree(raw), raw a stored value or the snapshot of pt
RestoreProgressTree ==
    /\ nCalls < MaxCalls
    /\ \E raw \in RawSnapshots \cup {toJSON(pt)} :
         /\ pt' = restoreProgressTree(raw)
         /\ last' = RestoreCall("restoreProgressTree", UNDEFINED_ID, NoCall.meta,
                                <<>>, "ok", raw)
    /\ nCalls' = nCalls + 1
    /\ added' = {}
    /\ UNCHANGED <<now, calledIds, codeVars, appVars, storeVars>>

\* pt.addAttempt(questionId, meta) on the restored tree
AddAttemptRestored ==
    /\ nCalls < MaxCalls
    /\ \E questionId \in QuestionIds, meta \in Metas :
         LET r == addAttemptOn(pt, questionId, meta, now)
         IN /\ pt' = r.pt
            /\ last' = RestoreCall("addAttempt", questionId, meta, <<>>, r.ret,
                                   [type |-> "none"])
            /\ added' = IF r.ret = "true" THEN added \cup {questionId} ELSE added
    /\ nCalls' = nCalls + 1
    /\ UNCHANGED <<now, calledIds, codeVars, appVars, storeVars>>

\* pt.has(questionId) on the restored tree
HasRestored ==
    /\ nCalls < MaxCalls
    /\ \E questionId \in QuestionIds :
         last' = RestoreCall("has", questionId, NoCall.meta, <<>>,
                             hasOn(pt, questionId), [type |-> "none"])
    /\ nCalls' = nCalls + 1
    /\ UNCHANGED <<pt, now, calledIds, added, codeVars, appVars, storeVars>>

NextRestore == RestoreProgressTree \/ AddAttemptRestored \/ HasRestored

SpecRestore == Init /\ [][NextRestore]_vars

----------------------------------------------------------------------------
(* Requests to the questions, topics and progress routers *)

\* a request to route: its middleware runs first; when all of it calls
\* next() the handler answers status with body and leaves file
Handle(route, token, status, body, file) ==
    LET m == RunMiddleware(RouteMiddleware(route), token, now)
    IN IF m # 0
       THEN /\ lastR' = Response(route, token, m, FALSE, "error")
            /\ questionsFile' = questionsFile
       ELSE /\ lastR' = Response(route, token, status, TRUE, body)
            /\ questionsFile' = file

\* the ids a request may name: the two in the file and one that is not
RequestIds == FileQuestionIds \cup {"test-id"}

\* GET /api/questions (?onlyIncomplete): a random question of those left
GetQuestions ==
    /\ \E token \in Tokens, onlyIncomplete \in BOOLEAN :
         LET filtered == {q \in FileQuestionIds :
                            ~onlyIncomplete \/ ~questionsFile[q]}
         IN IF filtered = {}
            THEN Handle("GET /api/questions", token, 404, "error", questionsFile)
            ELSE Handle("GET /api/questions", token, 200, "question", questionsFile)
    /\ UNCHANGED <<now, users, treeVars, codeVars, storeVars>>

\* GET /api/questions/all
GetAllQuestions ==
    /\ \E token \in Tokens :
         Handle("GET /api/questions/all", token, 200, "questions", questionsFile)
    /\ UNCHANGED <<now, users, treeVars, codeVars, storeVars>>

\* GET /api/questions/:id
GetQuestionById ==
    /\ \E token \in Tokens, id \in RequestIds :
         IF id \in FileQuestionIds
         THEN Handle("GET /api/questions/:id", token, 200, "question", questionsFile)
         ELSE Handle("GET /api/questions/:id", token, 404, "error", questionsFile)
    /\ UNCHANGED <<now, users, treeVars, codeVars, storeVars>>

\* PATCH /api/questions/:id with body {complete}
PatchQuestion ==
    /\ \E token \in Tokens, id \in RequestIds, complete \in BOOLEAN :
         IF id \in FileQuestionIds
         THEN Handle("PATCH /api/questions/:id", token, 200, "question",
                     [questionsFile EXCEPT ![id] = complete])
         ELSE Handle("PATCH /api/questions/:id", token, 404, "error", questionsFile)
    /\ UNCHANGED <<now, users, treeVars, codeVars, storeVars>>

\* POST /api/questions/reset
ResetQuestions ==
    /\ \E token \in Tokens :
         Handle("POST /api/questions/reset", token, 200, "message",
                [q \in FileQuestionIds |-> FALSE])
    /\ UNCHANGED <<now, users, treeVars, codeVars, storeVars>>

\* GET /api/topics
GetTopics ==
    /\ \E token \in Tokens :
         Handle("GET /api/topics", token, 200, "topics", questionsFile)
    /\ UNCHANGED <<now, users, treeVars, codeVars, storeVars>>

\* GET /api/topics/questions?topics=
GetTopicQuestions ==
    /\ \E token \in Tokens, topics \in BOOLEAN :
         IF topics
         THEN Handle("GET /api/topics/questions", token, 200, "questions", questionsFile)
         ELSE Handle("GET /api/topics/questions", token, 400, "error", questionsFile)
    /\ UNCHANGED <<now, users, treeVars, codeVars, storeVars>>

\* POST /api/topics/questions with body {topics}
PostTopicQuestions ==
    /\ \E token \in Tokens, topics \in BOOLEAN :
         IF topics
         THEN Handle("POST /api/topics/questions", token, 200, "questions", questionsFile)
         ELSE Handle("POST /api/topics/questions", token, 400, "error", questionsFile)
    /\ UNCHANGED <<now, users, treeVars, codeVars, storeVars>>

\* GET /api/topics/available
GetAvailableTopics ==
    /\ \E token \in Tokens :
         Handle("GET /api/topics/available", token, 200, "topics", questionsFile)
    /\ UNCHANGED <<now, users, treeVars, codeVars, storeVars>>

\* GET /api/progress, registered behind verifyToken
GetProgressAttempts ==
    /\ \E token \in Tokens :
         Handle("GET /api/progress", token, 200, "attempts", questionsFile)
    /\ UNCHANGED <<now, users, treeVars, codeVars, storeVars>>

NextApi ==
    \/ GetQuestions
    \/ GetAllQuestions
    \/ GetQuestionById
    \/ PatchQuestion
    \/ ResetQuestions
    \/ GetTopics
    \/ GetTopicQuestions
    \/ PostTopicQuestions
    \/ GetAvailableTopics
    \/ GetProgressAttempts

SpecApi == Init /\ [][NextApi]_vars

----------------------------------------------------------------------------
(* Requests to the auth router *)

\* POST /auth/signup
PostSignup ==
    /\ \E email \in BodyEmails, name \in BodyNames, saltFind \in Salts,
          saltStore \in Salts, code \in RawCodes, mailOk \in BOOLEAN :
         LET r == signupRoute(users, codes, email, name, saltFind, saltStore,
                              code, mailOk, now)
         IN /\ Len(r.codes) <= MaxEntries
            /\ codes' = r.codes
            /\ users' = r.users
            /\ lastR' = r.res
    /\ UNCHANGED <<now, questionsFile, lastC, issuedRaw, wrongRun, consumed,
                   treeVars, storeVars>>

\* POST /auth/verify-email
PostVerifyEmail ==
    /\ \E email \in BodyEmails, code \in BodyCodes, name \in BodyNames,
          saltVerify \in Salts, saltCreate \in Salts :
         LET r == verifyEmailRoute(users, codes, email, code, name, saltVerify,
                                   saltCreate, now)
         IN /\ Len(r.users) <= MaxUsers
            /\ codes' = r.codes
            /\ users' = r.users
            /\ lastR' = r.res
    /\ UNCHANGED <<now, questionsFile, lastC, issuedRaw, wrongRun, consumed,
                   treeVars, storeVars>>

\* POST /auth/resend-code
PostResendCode ==
    /\ \E email \in BodyEmails, type \in Types, saltStore \in Salts,
          code \in RawCodes, mailOk \in BOOLEAN :
         LET r == resendCodeRoute(users, codes, email, type, saltStore, code,
                                  mailOk, now)
         IN /\ Len(r.codes) <= MaxEntries
            /\ codes' = r.codes
            /\ users' = r.users
            /\ lastR' = r.res
    /\ UNCHANGED <<now, questionsFile, lastC, issuedRaw, wrongRun, consumed,
                   treeVars, storeVars>>

NextAuth == PostSignup \/ PostVerifyEmail \/ PostResendCode

SpecAuth == Init /\ [][NextAuth]_vars

----------------------------------------------------------------------------
(* Requests that carry tokens: routes behind verifyToken, POST /auth/refresh *)

\* the instants of these requests: the start, the expiry of an access token
\* issued at the start, the expiry of a refresh token issued at the start
TokenInstants == {1, 1 + AccessLifetime, 1 + RefreshLifetime}

\* the ids tokens are presented for: user 1 of the database, and 2, for
\* whom no user is stored
TokenUserIds == {1, 2}

\* the cookies a request may carry: none, a string that is no JWT, and
\* tokens of either type for either id, signed with the access secret, the
\* refresh secret (a deployment may set both to one value) or a key the
\* server does not know, issued at the start or an access lifetime later
PresentedTokens ==
    {NoToken, MalformedToken}
    \cup { Jwt(sub, type, key, 1 + life) :
             sub \in TokenUserIds, type \in {"access", "refresh"},
             key \in {ACCESS_SECRET, REFRESH_SECRET, "attacker-secret"},
             life \in {AccessLifetime, RefreshLifetime} }

TokenResponse(route, token, status, error, userId, nextCalled, cookie, t) ==
    [route |-> route, token |-> token, status |-> status, error |-> error,
     userId |-> userId, nextCalled |-> nextCalled, cookie |-> cookie, at |-> t]

\* UserModel.findUserById(userId): the index of the user, 0 for undefined
findUserById(us, userId) ==
    FindIndex([i \in 1..Len(us) |-> us[i].id = userId])

\* router.post('/refresh') at time t: the response, cookie being the
\* accessToken cookie it sets (NoToken when it sets none)
refreshRoute(us, refreshToken, t) ==
    LET R(status, error, cookie) ==
            TokenResponse("POST /auth/refresh", refreshToken, status, error,
                          0, FALSE, cookie, t)
    IN IF refreshToken = NoToken
       THEN R(401, "No refresh token provided", NoToken)
       ELSE LET v == verifyRefreshToken(refreshToken, t)
            IN IF v.thrown THEN R(401, "Invalid refresh token", NoToken)
               ELSE IF findUserById(us, v.sub) = 0
               THEN R(401, "User not found", NoToken)
               ELSE R(200, "", generateTokens(v.sub, t).accessToken)

\* UserModel.deleteUserData(userId)
deleteUserData(us, userId) ==
    LET Other(user) == user.id # userId
    IN SelectSeq(us, Other)

\* GET /auth/me, registered behind verifyToken and loadUser
GetMe ==
    /\ \E token \in PresentedTokens :
         LET v == verifyToken(token, now)
             found == findUserById(users, v.userId) # 0
         IN lastR' = TokenResponse("GET /auth/me", token,
                                   IF v.status # 0 THEN v.status
                                   ELSE IF found THEN 200 ELSE 401,
                                   IF v.status # 0 THEN v.error
                                   ELSE IF found THEN "" ELSE "User not found",
                                   v.userId, v.status = 0, NoToken, now)
    /\ UNCHANGED <<now, users, questionsFile, treeVars, codeVars, storeVars>>

\* POST /auth/refresh
PostRefresh ==
    /\ \E token \in PresentedTokens :
         lastR' = refreshRoute(users, token, now)
    /\ UNCHANGED <<now, users, questionsFile, treeVars, codeVars, storeVars>>

\* DELETE /auth/account, registered behind verifyToken
DeleteAccount ==
    /\ \E token \in PresentedTokens :
         LET v == verifyToken(token, now)
         IN /\ lastR' = TokenResponse("DELETE /auth/account", token,
                                      IF v.status # 0 THEN v.status ELSE 200,
                                      v.error, v.userId, v.status = 0, NoToken,
                                      now)
            /\ users' = IF v.status = 0 THEN deleteUserData(users, v.userId)
                        ELSE users
    /\ UNCHANGED <<now, questionsFile, treeVars, codeVars, storeVars>>

\* time passes
TokenTick ==
    /\ \E t \in TokenInstants : t > now /\ now' = t
    /\ UNCHANGED <<treeVars, codeVars, appVars, storeVars>>

NextTokens == GetMe \/ PostRefresh \/ DeleteAccount \/ TokenTick

\* a database with one verified user, whose tokens generateTokens issued
InitTokens ==
    /\ InitTree /\ InitNoCodes /\ InitStore
    /\ questionsFile = [q \in FileQuestionIds |-> FALSE]
    /\ users = createUser(<<>>, encryptEmail("User@Example.com", "salt1"),
                          "Test User")
    /\ lastR = NoRequest

SpecTokens == InitTokens /\ [][NextTokens]_vars

----------------------------------------------------------------------------
(* Concurrent addOrUpdateAttempt calls on the database file *)

\* a request calls addOrUpdateAttempt and its readDatabase reads the file
ReadDatabase(p) ==
    /\ procs[p].pc = "idle"
    /\ \E questionId \in StoreQuestionIds, notes \in StoreNotes :
         LET r == readDatabase(dbFile, now)
         IN procs' = [procs EXCEPT ![p] =
                        [pc |-> IF r.migrated THEN "migrate" ELSE "mutate",
                         db |-> r.parsed, questionId |-> questionId,
                         notes |-> notes, readAt |-> nWrites,
                         wroteAt |-> 0, ret |-> "none"]]
    /\ UNCHANGED <<dbFile, nWrites, now, treeVars, codeVars, appVars>>

\* readDatabase writes the migrated content back
MigrateWrite(p) ==
    /\ procs[p].pc = "migrate"
    /\ dbFile' = writeDatabase(dbFile, procs[p].db)
    /\ nWrites' = nWrites + 1
    /\ procs' = [procs EXCEPT ![p].pc = "mutate"]
    /\ UNCHANGED <<now, treeVars, codeVars, appVars>>

\* addOrUpdateAttempt changes its copy, writes it and returns the attempt
MutateAndWrite(p) ==
    /\ procs[p].pc = "mutate"
    /\ LET db == addOrUpdateAttempt(procs[p].db, procs[p].questionId, NULL,
                                    procs[p].notes, now)
       IN /\ dbFile' = writeDatabase(dbFile, db)
          /\ procs' = [procs EXCEPT ![p].pc = "done", ![p].db = db,
                                    ![p].wroteAt = nWrites + 1,
                                    ![p].ret = "attempt"]
    /\ nWrites' = nWrites + 1
    /\ UNCHANGED <<now, treeVars, codeVars, appVars>>

NextStore ==
    \E p \in Procs : ReadDatabase(p) \/ MigrateWrite(p) \/ MutateAndWrite(p)

SpecStore == Init /\ [][NextStore]_vars

----------------------------------------------------------------------------
(* Sequential calls on the progress of one stored user *)

\* a call that ran from its readDatabase to its return
CallDone(op, db, questionId, notes, ret) ==
    [pc |-> op, db |-> db, questionId |-> questionId, notes |-> notes,
     readAt |-> nWrites, wroteAt |-> 0, ret |-> ret]

\* await UserModel.addOrUpdateAttempt(userId, {questionId, notes}), alone
AddOrUpdateAttempt ==
    /\ nCalls < MaxCalls
    /\ nCalls' = nCalls + 1
    /\ \E questionId \in UserQuestionIds, notes \in StoreNotes :
         LET r == readDatabase(dbFile, now)
             file == IF r.migrated THEN writeDatabase(dbFile, r.parsed) ELSE dbFile
             db == addOrUpdateAttempt(r.parsed, questionId, NULL, notes, now)
         IN IF addOrUpdateAttemptThrows(r.parsed, questionId, now)
            THEN /\ dbFile' = file
                 /\ nWrites' = nWrites + (IF r.migrated THEN 1 ELSE 0)
                 /\ procs' = [procs EXCEPT ![1] =
                                CallDone("addOrUpdateAttempt", r.parsed,
                                         questionId, notes, "TypeError")]
                 /\ calledIds' = calledIds
            ELSE /\ dbFile' = writeDatabase(file, db)
                 /\ nWrites' = nWrites + (IF r.migrated THEN 2 ELSE 1)
                 /\ procs' = [procs EXCEPT ![1] =
                                CallDone("addOrUpdateAttempt", db, questionId,
                                         notes, "attempt")]
                 /\ calledIds' = calledIds \cup {questionId}
    /\ UNCHANGED <<now, pt, last, added, codeVars, appVars>>

\* await UserModel.hasCompleted(userId, questionId), alone
HasCompleted ==
    /\ nCalls < MaxCalls
    /\ nCalls' = nCalls + 1
    /\ \E questionId \in UserQuestionIds :
         LET r == readDatabase(dbFile, now)
         IN /\ dbFile' = IF r.migrated THEN writeDatabase(dbFile, r.parsed)
                         ELSE dbFile
            /\ nWrites' = nWrites + (IF r.migrated THEN 1 ELSE 0)
            /\ procs' = [procs EXCEPT ![1] =
                           CallDone("hasCompleted", r.parsed, questionId, "",
                                    IF hasCompleted(r.parsed, questionId)
                                    THEN "true" ELSE "false")]
    /\ UNCHANGED <<now, pt, last, calledIds, added, codeVars, appVars>>

NextUser == AddOrUpdateAttempt \/ HasCompleted \/ TreeTick

\* the user as createUser stored it
SpecUser == Init /\ [][NextUser]_vars

\* a user stored by an earlier revision
InitLegacyUser ==
    /\ InitTree /\ InitNoCodes /\ InitApp
    /\ dbFile \in LegacyUserProgress
    /\ procs = [p \in Procs |-> IdleProc]
    /\ nWrites = 0

SpecLegacyUser == InitLegacyUser /\ [][NextUser]_vars

----------------------------------------------------------------------------
(* ProgressTree.fromAttempts on a flat attempts list *)

\* the attempts of a flat list: two questionIds, with or without a date,
\* with or without timeTakenSeconds and notes
ListAttempts ==
    { [questionId |-> q, completedAt |-> c, timeTakenSeconds |-> m[1],
       notes |-> m[2]] :
        q \in StoreQuestionIds, c \in {0, 1, 2},
        m \in {<<NULL, "">>, <<"35", "n1">>, <<NULL, "n2">>} }

\* the lists of at most MaxCalls attempts
AttemptLists ==
    UNION { [1..n -> ListAttempts] : n \in 0..MaxCalls }

FromAttemptsCall(attempts, ret, t) ==
    [op |-> "fromAttempts", questionId |-> UNDEFINED_ID, meta |-> NoCall.meta,
     existing |-> <<>>, ret |-> ret, attempts |-> attempts, at |-> t]

\* pt = ProgressTree.fromAttempts(attempts)
FromAttempts ==
    /\ last = NoCall
    /\ \E attempts \in AttemptLists :
         LET r == fromAttempts(attempts, now)
         IN /\ pt' = r.pt
            /\ last' = FromAttemptsCall(attempts, r.ret, now)
    /\ UNCHANGED <<now, calledIds, nCalls, added, codeVars, appVars, storeVars>>

NextFromAttempts == FromAttempts \/ TreeTick

SpecFromAttempts == Init /\ [][NextFromAttempts]_vars

----------------------------------------------------------------------------
(* Actions on the verification codes of one email address.                 *)
(* Each of the three methods starts with readDatabase, which writes the    *)
(* file back with the stored user migrated when the user has no            *)
(* progressTree yet.                                                       *)

\* UserModel.storeVerificationCode(email, code, type)
StoreVerificationCode ==
    \E email \in Emails, code \in RawCodes, type \in Types, salt \in Salts :
        LET r == storeVerificationCode(codes, encryptEmail(email, salt), code, type, now)
        IN /\ Len(r.codes) <= MaxEntries
           /\ codes' = r.codes
           /\ lastC' = CodeCall("storeVerificationCode", code, type, r.raw)
           /\ issuedRaw' = IF Tracked(email, type) THEN r.raw ELSE issuedRaw
           /\ wrongRun' = IF Tracked(email, type) THEN 0 ELSE wrongRun
           /\ consumed' = IF Tracked(email, type) THEN FALSE ELSE consumed
           /\ dbFile' = readDatabase(dbFile, now).parsed
           /\ UNCHANGED <<now, treeVars, appVars, procs, nWrites>>

\* UserModel.verifyCode(email, code, type)
VerifyCode ==
    \E email \in Emails, code \in RawCodes, type \in Types, salt \in Salts :
        LET r == verifyCode(codes, encryptEmail(email, salt), code, type, now)
        IN /\ codes' = r.codes
           /\ lastC' = CodeCall("verifyCode", code, type,
                                IF r.ret THEN "true" ELSE "false")
           /\ wrongRun' =
                IF ~Tracked(email, type) \/ issuedRaw = NULL
                   \/ wrongRun >= MAX_CODE_ATTEMPTS
                THEN wrongRun
                ELSE IF code # issuedRaw THEN wrongRun + 1 ELSE 0
           /\ consumed' = (consumed \/ (Tracked(email, type) /\ r.ret))
           /\ dbFile' = readDatabase(dbFile, now).parsed
           /\ UNCHANGED <<now, issuedRaw, treeVars, appVars, procs, nWrites>>

\* UserModel.cleanupExpiredCodes(), run by the hourly timer
CleanupExpiredCodes ==
    /\ codes' = cleanupExpiredCodes(codes, now)
    /\ lastC' = [NoCodeCall EXCEPT !.op = "cleanupExpiredCodes"]
    /\ dbFile' = readDatabase(dbFile, now).parsed
    /\ UNCHANGED <<now, issuedRaw, wrongRun, consumed, treeVars, appVars,
                   procs, nWrites>>

\* time passes
CodeTick ==
    /\ \E t \in Instants : t > now /\ now' = t
    /\ UNCHANGED <<codes, lastC, issuedRaw, wrongRun, consumed, treeVars, appVars, storeVars>>

NextCodes ==
    \/ StoreVerificationCode
    \/ VerifyCode
    \/ CleanupExpiredCodes
    \/ CodeTick

SpecCodes == InitCodes /\ [][NextCodes]_vars

----------------------------------------------------------------------------
(* Actions on the verification codes of one email address for two purposes *)

MaxPurposeEntries == 2

\* the purposes the auth routes issue codes for
Purposes == {"email_verification", "login_verification"}

\* the instants of these calls: the start and a code lifetime later
PurposeInstants == {1, 1 + expiryMinutes * 60 * 1000}

\* UserModel.storeVerificationCode(email, code, type)
StoreCodeForPurpose ==
    \E email \in Emails, type \in Purposes, salt \in Salts :
        LET r == storeVerificationCode(codes, encryptEmail(email, salt),
                                       "111111", type, now)
        IN /\ Len(r.codes) <= MaxPurposeEntries
           /\ codes' = r.codes
           /\ lastC' = CodeCall("storeVerificationCode", "111111", type, r.raw)
           /\ dbFile' = readDatabase(dbFile, now).parsed
           /\ UNCHANGED <<now, issuedRaw, wrongRun, consumed, treeVars, appVars,
                          procs, nWrites>>

\* UserModel.verifyCode(email, code, type)
VerifyCodeForPurpose ==
    \E email \in Emails, code \in RawCodes, type \in Purposes, salt \in Salts :
        LET r == verifyCode(codes, encryptEmail(email, salt), code, type, now)
        IN /\ codes' = r.codes
           /\ lastC' = CodeCall("verifyCode", code, type,
                                IF r.ret THEN "true" ELSE "false")
           /\ dbFile' = readDatabase(dbFile, now).parsed
           /\ UNCHANGED <<now, issuedRaw, wrongRun, consumed, treeVars, appVars,
                          procs, nWrites>>

\* time passes
PurposeTick ==
    /\ \E t \in PurposeInstants : t > now /\ now' = t
    /\ UNCHANGED <<codeVars, treeVars, appVars, storeVars>>

NextPurposes ==
    \/ StoreCodeForPurpose
    \/ VerifyCodeForPurpose
    \/ CleanupExpiredCodes
    \/ PurposeTick

SpecPurposes == Init /\ [][NextPurposes]_vars

----------------------------------------------------------------------------
(* Recount of the tree, for the claims about the cached totals *)

RECURSIVE CountItems(_)
CountItems(nodes) ==
    IF nodes = <<>> THEN 0 ELSE Len(Head(nodes).items) + CountItems(Tail(nodes))

NodesOf(p) == p.tree.paper1 \o p.tree.paper2

\* the number of items stored under topic t, in either paper
ItemsUnderTopic(p, t) ==
    LET IsT(node) == node.topic = t
    IN CountItems(SelectSeq(NodesOf(p), IsT))

\* the topics with a node in the tree or with a cached count
TopicsOf(p) ==
    {NodesOf(p)[i].topic : i \in 1..Len(NodesOf(p))}
    \cup {p.totals.topics[i].topic : i \in 1..Len(p.totals.topics)}

SameTotals(t1, t2) ==
    /\ t1.all = t2.all
    /\ t1.paper1 = t2.paper1
    /\ t1.paper2 = t2.paper2
    /\ {t1.topics[i].topic : i \in 1..Len(t1.topics)}
         = {t2.topics[i].topic : i \in 1..Len(t2.topics)}
    /\ \A i \in 1..Len(t1.topics) :
         TopicTotal(t2, t1.topics[i].topic) = t1.topics[i].count

----------------------------------------------------------------------------
(* Claims about ProgressTree *)

\* C1: in every state reached from the empty tree by addAttempt calls the
\* cached totals equal a recount of the tree: totals.all is the number of
\* leaf items of both papers and the sum of the two paper totals, each paper
\* total is the number of items under that paper, and each topic total is
\* the number of items stored under that topic.
C1_TotalsEqualRecount ==
    /\ pt.totals.all = CountItems(pt.tree.paper1) + CountItems(pt.tree.paper2)
    /\ pt.totals.all = pt.totals.paper1 + pt.totals.paper2
    /\ pt.totals.paper1 = CountItems(pt.tree.paper1)
    /\ pt.totals.paper2 = CountItems(pt.tree.paper2)
    /\ \A t \in TopicsOf(pt) : TopicTotal(pt.totals, t) = ItemsUnderTopic(pt, t)

C1_Witness ==
    /\ pt.totals.paper1 >= 1
    /\ pt.totals.paper2 >= 1
    /\ last.op = "addAttempt"
    /\ last.existing # <<>>
    /\ last.ret = "false"

\* C2 (as claimed): when the questionIds passed so far are pairwise distinct
\* and non-empty, every call returned true and totalCount() is the number
\* of calls.
C2_DistinctIdsAllCounted ==
    (/\ nCalls = Cardinality(calledIds)
     /\ \A q \in calledIds : ~Falsy(q))
    => /\ totalCount(pt) = nCalls
       /\ nCalls > 0 => last.ret = "true"

\* the case of C3: the call just made passed only notes, for a questionId
\* already stored, and the notes differ from the stored ones
C3_Case ==
    /\ nCalls' = nCalls + 1
    /\ last'.existing # <<>>
    /\ last'.meta.completedAt = 0
    /\ last'.meta.timeTakenSeconds = NULL
    /\ last'.meta.notes # last'.existing[1].notes

C3_Effect ==
    /\ last'.ret = "false"
    /\ pt'.totals = pt.totals
    /\ StoredItem(pt', last'.questionId)
         = <<[last'.existing[1] EXCEPT !.notes = last'.meta.notes]>>
    /\ \A q \in QuestionIds \ {last'.questionId} :
         StoredItem(pt', q) = StoredItem(pt, q)

\* C3 (as claimed): addAttempt(q, {notes: n2}) for a stored q, with n2
\* different from the stored notes, returns false, leaves the totals
\* unchanged, sets the notes to n2 and changes nothing else.
C3_NotesOnlyUpdate == [][C3_Case => C3_Effect]_vars

\* C3 (amended): the same, for a non-empty n2; an empty n2 counts as no
\* notes supplied and leaves the stored notes as they are.
C3_NonEmptyNotesOnlyUpdate ==
    [][(C3_Case /\ last'.meta.notes # "") => C3_Effect]_vars

C3_Witness ==
    /\ last.op = "addAttempt"
    /\ last.existing # <<>>
    /\ last.meta.completedAt = 0
    /\ last.meta.timeTakenSeconds = NULL
    /\ last.meta.notes \notin {"", last.existing[1].notes}
    /\ last.existing[1].notes # ""
    /\ last.ret = "false"
    /\ StoredItem(pt, last.questionId)[1].notes = last.meta.notes

\* C4: has(q) is true exactly for the ids for which an addAttempt call has
\* returned true: from that call on, through every later call.
C4_HasIffAdded ==
    \A q \in QuestionIds : has(pt, q) <=> q \in added

C4_Witness ==
    /\ Cardinality(added) >= 2
    /\ last.ret = "false"
    /\ last.questionId \in added
    /\ has(pt, last.questionId)

\* C5: restoreProgressTree(t.toJSON()) has the version, the totals and the
\* has() results of t.
C5_RoundTrip ==
    LET r == restoreProgressTree(toJSON(pt))
    IN /\ r.version = pt.version
       /\ r.totals = pt.totals
       /\ \A q \in QuestionIds : has(r, q) = has(pt, q)

C5_Witness ==
    /\ pt.totals.paper1 >= 1
    /\ pt.totals.paper2 >= 2
    /\ restoreProgressTree(toJSON(pt)).totals.all = 3

\* C6: ProgressTree.fromAttempts(t.toAttemptsArray()) has the totals of t.
C6_ReingestKeepsTotals ==
    LET r == fromAttempts(toAttemptsArray(pt), now)
    IN /\ r.ret = "ok"
       /\ SameTotals(r.pt.totals, pt.totals)

C6_Witness ==
    /\ pt.totals.paper1 >= 1
    /\ pt.totals.paper2 >= 1
    /\ toAttemptsArray(pt) # PaperRecords(pt)
    /\ fromAttempts(toAttemptsArray(pt), now).pt.totals.all >= 2

\* C7 (as claimed): once addAttempt("alg-1001", ..) has returned true the
\* item is stored under paper1.topics.alg and counted in totals.paper1.
C7_AlgUnderPaper1 ==
    <<"alg", "1001">> \in added
    => /\ \E i \in 1..Len(pt.tree.paper1) :
            /\ pt.tree.paper1[i].topic = "alg"
            /\ IndexOf(pt.tree.paper1[i].items, "questionId", <<"alg", "1001">>) # 0
       /\ pt.totals.paper1 >= 1

----------------------------------------------------------------------------
(* Claims about the verification codes *)

\* the step is a verifyCode call for the tracked pair
TrackedVerifyStep ==
    /\ lastC'.op = "verifyCode"
    /\ lastC'.type = TrackedType
    /\ now' = now

\* the step is a storeVerificationCode call for the tracked pair
TrackedStoreStep ==
    /\ lastC'.op = "storeVerificationCode"
    /\ lastC'.type = TrackedType
    /\ now' = now

\* the entries of the tracked pair, whatever their ciphertext
OfTrackedPair(vc) ==
    decryptEmail(vc.email) = TrackedEmail /\ vc.type = TrackedType

\* an unexpired, unused entry of the tracked pair, below its attempts limit,
\* holds code
LiveMatch(code) ==
    \E i \in 1..Len(codes) :
        /\ OfTrackedPair(codes[i])
        /\ ~codes[i].used
        /\ codes[i].expiresAt > now
        /\ codes[i].attempts < MAX_CODE_ATTEMPTS
        /\ codes[i].code \in {hashCode(code, TrackedType), RawString(code)}

\* an unexpired, unused entry of the tracked pair is younger than the cooldown
RecentIssue ==
    \E i \in 1..Len(codes) :
        /\ OfTrackedPair(codes[i])
        /\ ~codes[i].used
        /\ codes[i].expiresAt > now
        /\ now - codes[i].createdAt < cooldownSeconds * 1000

\* C8 (as claimed): after an issue and maxAttempts verifyCode calls in a row
\* with wrong codes, every following verifyCode call for the pair, the one
\* with the right code included, returns false.
C8_LockedAfterMaxWrongCalls ==
    [][(TrackedVerifyStep /\ wrongRun >= MAX_CODE_ATTEMPTS)
       => lastC'.ret = "false"]_vars

\* an entry of the tracked pair in vcs holds code and is marked used
UsedMatch(vcs, code) ==
    \E i \in 1..Len(vcs) :
        /\ OfTrackedPair(vcs[i])
        /\ vcs[i].used
        /\ vcs[i].code \in {hashCode(code, TrackedType), RawString(code)}

\* C9 (as claimed): verifyCode with the issued code against an unexpired,
\* unused entry below its attempts limit returns true and marks the entry
\* used, and once a call has returned true every later call for the pair
\* returns false until a new code is issued.
C9_IssuedCodeVerifiesOnce ==
    [][TrackedVerifyStep
       => /\ LiveMatch(lastC'.code)
             => lastC'.ret = "true" /\ UsedMatch(codes', lastC'.code)
          /\ consumed => lastC'.ret = "false"]_vars

\* C10 (as claimed): storeVerificationCode for a pair with an unexpired,
\* unused entry younger than the cooldown returns the raw code the earlier
\* issue returned.
C10_CooldownReissuesSameCode ==
    [][(TrackedStoreStep /\ RecentIssue) => lastC'.ret = issuedRaw]_vars

\* reachable states of the code paths involved (not claims)
ReachLocked ==
    \E i \in 1..Len(codes) : codes[i].used /\ codes[i].attempts >= MAX_CODE_ATTEMPTS
ReachVerified == lastC.op = "verifyCode" /\ lastC.ret = "true"
ReachLegacyReuse ==
    /\ lastC.op = "storeVerificationCode"
    /\ lastC.ret # lastC.code
ReachTwoEntriesOfPair ==
    Len(codes) = 2 /\ OfTrackedPair(codes[1]) /\ OfTrackedPair(codes[2])

\* entry.maxAttempts || 5
AttemptsLimit(vc) == IF vc.maxAttempts # 0 THEN vc.maxAttempts ELSE 5

\* the entry at the place of vcs[i] after the step, if the step kept it
SameEntryAfter(i) ==
    /\ Len(codes') = Len(codes)
    /\ codes'[i].email = codes[i].email
    /\ codes'[i].createdAt = codes[i].createdAt
    /\ codes'[i].code = codes[i].code

\* the attempts of a stored entry are within its limit, and an entry whose
\* attempts have reached the limit is marked used
AttemptsBounded ==
    \A i \in 1..Len(codes) :
        /\ codes[i].attempts <= AttemptsLimit(codes[i])
        /\ codes[i].attempts >= AttemptsLimit(codes[i]) => codes[i].used

\* a verifyCode call raises the attempts of an entry only from below the
\* limit, by one, and only of an unused entry
GuessesBounded ==
    [][\A i \in 1..Len(codes) :
          (lastC'.op = "verifyCode" /\ SameEntryAfter(i)
           /\ codes'[i].attempts # codes[i].attempts)
          => /\ codes[i].attempts < AttemptsLimit(codes[i])
             /\ ~codes[i].used
             /\ codes'[i].attempts = codes[i].attempts + 1
             /\ lastC'.ret = "false"]_vars

\* C11: the attempts of a stored entry never exceed its maxAttempts, an entry
\* whose attempts have reached maxAttempts is marked used (so that verifyCode
\* no longer compares a candidate against it), and a verifyCode call counts a
\* wrong guess against an entry only while its attempts are below maxAttempts.
C11_BoundedGuessing == []AttemptsBounded /\ GuessesBounded

\* an entry was locked by its fifth wrong guess
C11_Witness ==
    /\ lastC.op = "verifyCode"
    /\ lastC.ret = "false"
    /\ \E i \in 1..Len(codes) :
          /\ codes[i].attempts = MAX_CODE_ATTEMPTS
          /\ codes[i].maxAttempts = MAX_CODE_ATTEMPTS
          /\ codes[i].used

\* an unused, unexpired entry of the tracked pair exists
LiveEntryOfPair ==
    \E i \in 1..Len(codes) :
        /\ OfTrackedPair(codes[i])
        /\ ~codes[i].used
        /\ codes[i].expiresAt > now

\* C12: a verifyCode call for a pair that has no entry, or only expired or
\* used entries, returns false and leaves the stored entries unchanged,
\* whatever code is supplied.
C12_NoLiveEntryRejects ==
    [][(TrackedVerifyStep /\ ~LiveEntryOfPair)
       => (lastC'.ret = "false" /\ codes' = codes)]_vars

\* the issued code was supplied again after it had been consumed
C12_Witness ==
    /\ lastC.op = "verifyCode"
    /\ lastC.ret = "false"
    /\ lastC.code = issuedRaw
    /\ consumed
    /\ ~LiveEntryOfPair
    /\ \E i \in 1..Len(codes) :
          OfTrackedPair(codes[i]) /\ codes[i].used /\ codes[i].expiresAt > now

\* C13: an addAttempt call with a falsy questionId (undefined, null, '')
\* returns false, without throwing, and leaves the tree and the totals as
\* they were.
C13_FalsyIdIsNoOp ==
    [][(nCalls' = nCalls + 1 /\ last'.op = "addAttempt"
        /\ last'.questionId \in {UNDEFINED_ID, EMPTY_ID})
       => (last'.ret = "false" /\ pt' = pt)]_vars

\* addAttempt('') was called on a tree that holds items
C13_Witness ==
    /\ last.op = "addAttempt"
    /\ last.questionId = EMPTY_ID
    /\ last.ret = "false"
    /\ pt.totals.all > 0
    /\ UNDEFINED_ID \in calledIds

\* the step is a call on the tree restored from a malformed value
OnMalformedRestore ==
    /\ last.op = "restoreProgressTree"
    /\ ~WellFormedSnapshot(last.raw)
    /\ nCalls' = nCalls + 1

\* C14 (as claimed): restoreProgressTree of a value that is not a well-formed
\* snapshot returns a fresh empty tree, and has and addAttempt then work on
\* it without throwing (for an id addAttempt takes on a fresh tree).
C14_MalformedRestoresFresh ==
    [][/\ (nCalls' = nCalls + 1 /\ last'.op = "restoreProgressTree"
           /\ ~WellFormedSnapshot(last'.raw))
          => pt' = NewProgressTree
       /\ (OnMalformedRestore /\ last'.op \in {"has", "addAttempt"}
           /\ last'.questionId # <<"constructor", "1">>)
          => last'.ret # "TypeError"]_vars

\* null and an object without tree do restore to a fresh tree (not a claim)
ReachFreshRestore ==
    /\ last.op = "restoreProgressTree"
    /\ last.raw.type = "null"
    /\ pt = NewProgressTree
    /\ nCalls = 3

\* the place of questionId in the array out, 0 if it has no record
PlaceOf(out, questionId) ==
    IF \E i \in 1..Len(out) : out[i].questionId = questionId
    THEN CHOOSE i \in 1..Len(out) : out[i].questionId = questionId
    ELSE 0

\* out has one record per leaf item of p and is ordered newest first
OneRecordPerItemNewestFirst(p, out) ==
    /\ Len(out) = CountItems(p.tree.paper1) + CountItems(p.tree.paper2)
    /\ \A q \in QuestionIds :
         Cardinality({i \in 1..Len(out) : out[i].questionId = q})
           = Len(StoredItem(p, q))
    /\ \A i, j \in 1..Len(out) : i < j => SortKey(out[i]) >= SortKey(out[j])

\* after the step that first adds an id, its record stands behind every
\* record with the same completedAt
NewTieGoesLast ==
    (nCalls' = nCalls + 1 /\ last'.op = "addAttempt" /\ last'.ret = "true")
    => LET out == toAttemptsArray(pt')
           k == PlaceOf(out, last'.questionId)
       IN /\ k # 0
          /\ \A i \in 1..Len(out) :
               SortKey(out[i]) = SortKey(out[k]) => i <= k

\* C15 (as claimed): toAttemptsArray returns one record per leaf item,
\* ordered by completedAt descending, and records with equal completedAt
\* stand in the order in which their ids were first added, also across
\* papers and topics.
C15_NewestFirstTiesByInsertion ==
    /\ []OneRecordPerItemNewestFirst(pt, toAttemptsArray(pt))
    /\ [][NewTieGoesLast]_vars

\* the part of C15 the code does satisfy (not a claim)
OneRecordPerItemNewestFirstHolds ==
    OneRecordPerItemNewestFirst(pt, toAttemptsArray(pt))

\* the places <<paper, i, j>> of the leaf items stored for questionId
PlacesOf(p, questionId) ==
    {pl \in UNION {{<<paper, i, j>> : j \in 1..Len(p.tree[paper][i].items)} :
                    <<paper, i>> \in UNION {{<<pp, n>> : n \in 1..Len(p.tree[pp])} :
                                           pp \in {"paper1", "paper2"}}} :
        p.tree[pl[1]][pl[2]].items[pl[3]].questionId = questionId}

\* C16: in every state reached by addAttempt calls each questionId is stored
\* as a leaf item at most once in the whole tree, and then under the paper
\* and the topic node derived from its id prefix.
C16_StoredOnceUnderDerivedNode ==
    \A q \in QuestionIds :
        /\ Cardinality(PlacesOf(pt, q)) <= 1
        /\ \A pl \in PlacesOf(pt, q) :
             /\ pt.tree[pl[1]][pl[2]].topic = normalizeTopicFromQuestionId(q)
             /\ pl[1] = classifyPaper(normalizeTopicFromQuestionId(q))

\* ids are stored under both papers and a stored id was passed again
C16_Witness ==
    /\ last.op = "addAttempt"
    /\ last.existing # <<>>
    /\ PlacesOf(pt, <<"Algebra", "7">>) # {}
    /\ PlacesOf(pt, <<"alg", "1001">>) # {}
    /\ pt.totals.all = 2
    /\ nCalls = 3

\* C17 (as claimed): a request to a questions or topics endpoint that
\* carries no access token is answered 401 and its handler does not run: no
\* question data is returned and no complete flag changes.
C17_NoTokenIsRejected ==
    [][(lastR'.route \in QuestionRoutes \cup TopicRoutes
        /\ lastR'.token = NoToken)
       => /\ lastR'.status = 401
          /\ ~lastR'.handlerRan
          /\ lastR'.body = "error"
          /\ questionsFile' = questionsFile]_vars

\* verifyToken does reject where it is registered (not a claim)
ReachProgressRejected ==
    /\ lastR.route = "GET /api/progress"
    /\ lastR.token = NoToken
    /\ lastR.status = 401
    /\ \E q \in FileQuestionIds : questionsFile[q]

\* C18: POST /auth/verify-email creates a user and sets the token cookies
\* only when verifyCode returned true; when it returned false the response
\* is 400 'Invalid or expired verification code' and no user is created and
\* no cookie set; when email or code is missing the response is 400 and
\* verifyCode is not called.
C18_UserOnlyAfterVerifiedCode ==
    [][lastR'.route = "POST /auth/verify-email"
       => /\ (lastR'.created \/ lastR'.cookies \/ users' # users)
             => (lastR'.verifyCalled /\ lastR'.verified)
          /\ (lastR'.verifyCalled /\ ~lastR'.verified)
             => /\ lastR'.status = 400
                /\ lastR'.error = "Invalid or expired verification code"
                /\ users' = users
                /\ ~lastR'.cookies
          /\ (lastR'.email = NULL \/ lastR'.code = NULL)
             => ~lastR'.verifyCalled
          /\ ~lastR'.verifyCalled
             => /\ lastR'.status = 400
                /\ codes' = codes
                /\ users' = users
                /\ ~lastR'.cookies]_vars

\* a code was verified and the user created
C18_Witness ==
    /\ lastR.route = "POST /auth/verify-email"
    /\ lastR.status = 201
    /\ lastR.verified
    /\ lastR.cookies
    /\ Len(users) = 1
    /\ \E i \in 1..Len(codes) : codes[i].used

\* the address of the request belongs to a user
BelongsToUser(email) ==
    \E i \in 1..Len(users) : decryptEmail(users[i].email) = EmailToLowerCase(email)

\* C19 (as claimed): POST /auth/signup for an address that belongs to a user
\* is answered 409 and stores no code and sends no mail; a request without
\* email or name or with an invalid address is answered 400 and stores
\* nothing; only a valid request for an unknown address stores a code and
\* sends it.
C19_SignupRejectsKnownEmail ==
    [][lastR'.route = "POST /auth/signup"
       => /\ (lastR'.email = NULL \/ lastR'.name = NULL
              \/ ~EmailFormatValid(lastR'.email))
             => /\ lastR'.status = 400
                /\ ~lastR'.stored /\ ~lastR'.mailed
                /\ codes' = codes
          /\ (lastR'.email # NULL /\ lastR'.name # NULL
              /\ EmailFormatValid(lastR'.email) /\ BelongsToUser(lastR'.email))
             => /\ lastR'.status = 409
                /\ ~lastR'.stored /\ ~lastR'.mailed
                /\ codes' = codes]_vars

\* signup does answer 409 when the ciphertexts coincide (not a claim)
ReachSignupConflict ==
    lastR.route = "POST /auth/signup" /\ lastR.status = 409

\* both calls have returned an attempt, for different questionIds
BothReturned ==
    /\ \A p \in Procs : procs[p].pc = "done" /\ procs[p].ret = "attempt"
    /\ procs[1].questionId # procs[2].questionId

\* each call read the file before the other wrote its attempt
Interleaved ==
    /\ procs[1].readAt < procs[2].wroteAt
    /\ procs[2].readAt < procs[1].wroteAt

\* the call that wrote its attempt last, and the other one
LaterWriter == IF procs[1].wroteAt > procs[2].wroteAt THEN 1 ELSE 2
EarlierWriter == 3 - LaterWriter

\* C20: two addOrUpdateAttempt calls for different questionIds can
\* interleave (both read, then both write), and then the stored database
\* holds only the later writer's attempt and tree entry although both calls
\* returned their attempt; calls that do not interleave lose nothing.
C20_LostUpdate ==
    BothReturned
    => LET stored == restoreProgressTree(dbFile.progressTree)
           q1 == procs[EarlierWriter].questionId
           q2 == procs[LaterWriter].questionId
       IN IF Interleaved
          THEN /\ AttemptIds(dbFile) = {q2}
               /\ has(stored, q2)
               /\ ~has(stored, q1)
               /\ dbFile.questionsAnswered = 1
          ELSE /\ AttemptIds(dbFile) = {q1, q2}
               /\ has(stored, q1)
               /\ has(stored, q2)

\* both calls read before either wrote its attempt, and the earlier
\* writer's attempt is gone
C20_Witness ==
    /\ BothReturned
    /\ Interleaved
    /\ procs[1].readAt = 0
    /\ procs[2].readAt = 0
    /\ AttemptIds(dbFile) = {procs[LaterWriter].questionId}

----------------------------------------------------------------------------
(* Claims about the progress of a stored user *)

\* the attempts-list entry of questionId in db, as a sequence of at most one
AttemptOf(db, questionId) ==
    LET k == IndexOf(db.attempts, "questionId", questionId)
    IN IF k = 0 THEN <<>> ELSE <<db.attempts[k]>>

\* the progress-tree item of questionId in db, the tree being the stored one
\* or, where none is stored yet, the one readDatabase backfills at time t
TreeItemOf(db, questionId, t) ==
    StoredItem(restoreProgressTree(readDatabase(db, t).parsed.progressTree),
               questionId)

\* the step is an addOrUpdateAttempt call for a questionId that has an
\* entry in the attempts list
Resubmission ==
    /\ procs'[1].pc = "addOrUpdateAttempt"
    /\ procs'[1].ret = "attempt"
    /\ nCalls' = nCalls + 1
    /\ procs'[1].questionId \in AttemptIds(dbFile)

ReachLegacyCompletedAtMoved ==
    /\ procs[1].pc = "addOrUpdateAttempt"
    /\ AttemptOf(dbFile, procs[1].questionId) # <<>>
    /\ "timestamp" \in DOMAIN AttemptOf(dbFile, procs[1].questionId)[1]
    /\ TreeItemOf(dbFile, procs[1].questionId, now)[1].completedAt
         # AttemptOf(dbFile, procs[1].questionId)[1].timestamp

----------------------------------------------------------------------------
(* Claims about fromAttempts *)

\* the places of the list at which questionId occurs
OccurrencesOf(attempts, questionId) ==
    {i \in 1..Len(attempts) : attempts[i].questionId = questionId}

Least(S) == CHOOSE i \in S : \A j \in S : i <= j
Greatest(S) == CHOOSE i \in S : \A j \in S : i >= j

\* the timeTakenSeconds of the last occurrence of questionId that has one
LastTimeTaken(attempts, questionId) ==
    LET S == {i \in OccurrencesOf(attempts, questionId) :
                attempts[i].timeTakenSeconds # NULL}
    IN IF S = {} THEN NULL ELSE attempts[Greatest(S)].timeTakenSeconds

\* the notes of the last occurrence of questionId that has any
LastNotes(attempts, questionId) ==
    LET S == {i \in OccurrencesOf(attempts, questionId) :
                attempts[i].notes \notin {NULL, ""}}
    IN IF S = {} THEN "" ELSE attempts[Greatest(S)].notes

\* the completedAt of the first occurrence of questionId, the time t of the
\* replay when that occurrence has none
FirstCompletedAt(attempts, questionId, t) ==
    LET a == attempts[Least(OccurrencesOf(attempts, questionId))]
    IN IF a.completedAt # 0 THEN a.completedAt ELSE t

\* the completedAt of the last occurrence of questionId that has one, else
\* the time t of the replay
LastCompletedAt(attempts, questionId, t) ==
    LET S == {i \in OccurrencesOf(attempts, questionId) :
                attempts[i].completedAt # 0}
    IN IF S = {} THEN t ELSE attempts[Greatest(S)].completedAt

\* the tree of a list counts every questionId of the list once and holds,
\* for each, the last timeTakenSeconds and notes supplied
CountedOnceLastMetaWins ==
    last.op = "fromAttempts"
    => /\ last.ret = "ok"
       /\ pt.totals.all
            = Cardinality({last.attempts[i].questionId :
                             i \in 1..Len(last.attempts)})
       /\ C1_TotalsEqualRecount
       /\ \A q \in StoreQuestionIds :
            IF OccurrencesOf(last.attempts, q) = {}
            THEN StoredItem(pt, q) = <<>>
            ELSE /\ StoredItem(pt, q) # <<>>
                 /\ StoredItem(pt, q)[1].timeTakenSeconds
                      = LastTimeTaken(last.attempts, q)
                 /\ StoredItem(pt, q)[1].notes = LastNotes(last.attempts, q)

\* C22 (as claimed): fromAttempts replays the list in input order; a
\* questionId occurring more than once is counted once in the totals, its
\* timeTakenSeconds and notes are those of the last occurrence supplying
\* them, and its completedAt is that of the first occurrence, whatever
\* completedAt later occurrences carry.
C22_FirstSeenControlsCompletedAt ==
    /\ CountedOnceLastMetaWins
    /\ last.op = "fromAttempts"
       => \A q \in StoreQuestionIds :
            OccurrencesOf(last.attempts, q) # {}
            => StoredItem(pt, q)[1].completedAt
                 = FirstCompletedAt(last.attempts, q, last.at)

\* what the replay does: the completedAt of an item is that of the last
\* occurrence carrying one
LastSeenControlsCompletedAt ==
    last.op = "fromAttempts"
    => \A q \in StoreQuestionIds :
         OccurrencesOf(last.attempts, q) # {}
         => StoredItem(pt, q)[1].completedAt
              = LastCompletedAt(last.attempts, q, last.at)

\* a list with one questionId twice under different dates was replayed
ReachDuplicateWithTwoDates ==
    /\ last.op = "fromAttempts"
    /\ \E i, j \in 1..Len(last.attempts) :
         /\ i < j
         /\ last.attempts[i].questionId = last.attempts[j].questionId
         /\ last.attempts[i].completedAt # 0
         /\ last.attempts[j].completedAt # 0
         /\ last.attempts[i].completedAt # last.attempts[j].completedAt

----------------------------------------------------------------------------
(* Claims about reissue, cleanup and the entries of a pair *)

\* vc is an unexpired, unused entry of the tracked pair younger than the
\* cooldown
RecentEntry(vc) ==
    /\ OfTrackedPair(vc)
    /\ ~vc.used
    /\ vc.expiresAt > now
    /\ now - vc.createdAt < cooldownSeconds * 1000

\* C23 (as claimed): a storeVerificationCode call for a pair with an
\* unexpired, unused entry younger than the cooldown does not refresh the
\* expiry: the expiresAt stored for the pair afterwards is still that of the
\* earlier issue (its issue time plus 15 minutes).
C23_ReissueKeepsExpiry ==
    [][(TrackedStoreStep /\ RecentIssue)
       => \A i \in 1..Len(codes') :
            OfTrackedPair(codes'[i])
            => \E j \in 1..Len(codes) :
                 /\ RecentEntry(codes[j])
                 /\ codes'[i].expiresAt = codes[j].expiresAt
                 /\ codes'[i].expiresAt
                      = codes[j].createdAt + expiryMinutes * 60 * 1000]_vars

\* a reissue within the cooldown stored an expiry later than the one of the
\* entry it replaced
ReachReissueWithLaterExpiry ==
    /\ lastC.op = "storeVerificationCode"
    /\ now = 45001
    /\ \E i \in 1..Len(codes) :
         /\ OfTrackedPair(codes[i])
         /\ codes[i].createdAt = 45001
         /\ codes[i].expiresAt = 45001 + expiryMinutes * 60 * 1000

\* the step is a cleanupExpiredCodes call
CleanupStep ==
    /\ lastC'.op = "cleanupExpiredCodes"
    /\ now' = now

\* the entries after the step are the entries with expiresAt > now of
\* before, each as it was and in the same order
ExactlyExpiredRemoved ==
    LET kept == {i \in 1..Len(codes) : codes[i].expiresAt > now}
    IN /\ Len(codes') = Cardinality(kept)
       /\ \A i \in kept : \E j \in 1..Len(codes') : codes'[j] = codes[i]
       /\ \A j \in 1..Len(codes') :
            \E i \in kept :
               /\ codes'[j] = codes[i]
               /\ j = Cardinality({k \in kept : k <= i})

\* C24 (as claimed): cleanupExpiredCodes removes exactly the entries with
\* expiresAt <= now; every unexpired entry, used or unused, with its
\* attempts, and every user record is left unchanged.
C24_CleanupRemovesOnlyExpired ==
    [][CleanupStep
       => /\ ExactlyExpiredRemoved
          /\ users' = users
          /\ dbFile' = dbFile]_vars

\* the stored user after the step is the one of before, given the tree of
\* its attempts if it had no progressTree
UserKeptOrMigrated ==
    /\ dbFile'.attempts = dbFile.attempts
    /\ dbFile'.questionsAnswered = dbFile.questionsAnswered
    /\ dbFile'.progressTree =
         IF dbFile.progressTree # NoSnapshot THEN dbFile.progressTree
         ELSE toJSON(fromAttempts(dbFile.attempts, now).pt)

\* C24 (amended): cleanupExpiredCodes removes exactly the entries with
\* expiresAt <= now and leaves every unexpired entry unchanged; a user
\* record is left unchanged except that a user stored without progressTree
\* is given the tree built from its attempts.
C24_CleanupRemovesOnlyExpiredMigratesUsers ==
    [][CleanupStep
       => /\ ExactlyExpiredRemoved
          /\ users' = users
          /\ UserKeptOrMigrated]_vars

\* a cleanup has removed the expired entry of the tracked pair
C24_Witness ==
    /\ lastC.op = "cleanupExpiredCodes"
    /\ issuedRaw # NULL
    /\ now >= 900001
    /\ codes = <<>>

\* a cleanup has kept a used, unexpired entry with its attempts
ReachCleanupKeepsUsedEntry ==
    /\ lastC.op = "cleanupExpiredCodes"
    /\ \E i \in 1..Len(codes) :
         codes[i].used /\ codes[i].attempts >= 1 /\ codes[i].expiresAt > now

----------------------------------------------------------------------------
(* Claims about tokens *)

\* token is a JWT signed with secret, unexpired at time t, of the given type
ValidTokenOfType(token, secret, type, t) ==
    /\ token \notin {NoToken, MalformedToken}
    /\ token.key = secret
    /\ token.exp > t
    /\ token.type = type

\* a request just went through verifyToken
VerifyTokenStep ==
    /\ lastR'.route \in {"GET /auth/me", "DELETE /auth/account"}
    /\ now' = now

\* a request was just made to POST /auth/refresh
RefreshStep ==
    /\ lastR'.route = "POST /auth/refresh"
    /\ now' = now

\* verifyToken calls next, with req.userId the token's subject, exactly for
\* a valid access token, and answers 401 without req.userId otherwise
AccessOnlyByAccessToken ==
    [][VerifyTokenStep
       => IF ValidTokenOfType(lastR'.token, ACCESS_SECRET, "access", now)
          THEN /\ lastR'.nextCalled
               /\ lastR'.userId = lastR'.token.sub
          ELSE /\ ~lastR'.nextCalled
               /\ lastR'.status = 401
               /\ lastR'.userId = 0]_vars

\* POST /refresh sets an access token cookie only for a valid refresh token
\* whose user is stored, and the cookie is an access token of that user
RefreshOnlyByRefreshToken ==
    [][RefreshStep
       => IF /\ ValidTokenOfType(lastR'.token, REFRESH_SECRET, "refresh", now)
             /\ \E i \in 1..Len(users) : users[i].id = lastR'.token.sub
          THEN /\ lastR'.status = 200
               /\ lastR'.cookie
                    = Jwt(lastR'.token.sub, "access", ACCESS_SECRET,
                          now + AccessLifetime)
          ELSE /\ lastR'.status = 401
               /\ lastR'.cookie = NoToken]_vars

\* C25: verifyToken sets req.userId and calls next only for a validly
\* signed, unexpired token of type 'access'; no token, an invalid or expired
\* token and a refresh token are answered 401 with req.userId unset.
\* verifyRefreshToken returns a user id only for a validly signed, unexpired
\* token of type 'refresh', so POST /refresh never issues an access token
\* from an access token or for a user that is no longer stored.
C25_TokenTypeSeparation == AccessOnlyByAccessToken /\ RefreshOnlyByRefreshToken

\* POST /refresh was refused for a refresh token, valid in itself, of the
\* user whose account was deleted
C25_Witness ==
    /\ lastR.route = "POST /auth/refresh"
    /\ lastR.status = 401
    /\ lastR.error = "User not found"
    /\ lastR.token = generateTokens(1, 1).refreshToken
    /\ users = <<>>

\* reachable outcomes of the token checks (not claims)
ReachAccessTokenRefusedAtRefresh ==
    /\ lastR.route = "POST /auth/refresh"
    /\ lastR.status = 401
    /\ lastR.token = Jwt(1, "access", REFRESH_SECRET, 1 + RefreshLifetime)
    /\ Len(users) = 1
ReachRefreshTokenRefusedAtVerifyToken ==
    /\ lastR.route = "GET /auth/me"
    /\ lastR.status = 401
    /\ lastR.error = "Invalid token"
    /\ lastR.token.type = "refresh"
ReachRefreshed ==
    /\ lastR.route = "POST /auth/refresh"
    /\ lastR.status = 200

----------------------------------------------------------------------------
(* Claims about the entries of an (email, purpose) pair *)

\* vc is an entry of the address of the model for purpose type, whatever
\* its ciphertext
OfPurpose(vc, type) ==
    decryptEmail(vc.email) = TrackedEmail /\ vc.type = type

\* the entries of vcs for purpose type, in their order
EntriesOfPurpose(vcs, type) ==
    LET Is(vc) == OfPurpose(vc, type)
    IN SelectSeq(vcs, Is)

\* the step is a storeVerificationCode call
StoreStep ==
    /\ lastC'.op = "storeVerificationCode"
    /\ now' = now

\* the step is a verifyCode call
VerifyStep ==
    /\ lastC'.op = "verifyCode"
    /\ now' = now

\* the store holds at most one entry for each (email, purpose) pair
AtMostOneEntryPerPair ==
    \A type \in Purposes : Len(EntriesOfPurpose(codes, type)) <= 1

\* an issue leaves exactly one entry for its pair, unused and with no
\* attempts, and leaves the entries of the other pairs as they were
IssueLeavesOneFreshEntry ==
    [][StoreStep
       => /\ Len(EntriesOfPurpose(codes', lastC'.type)) = 1
          /\ ~EntriesOfPurpose(codes', lastC'.type)[1].used
          /\ EntriesOfPurpose(codes', lastC'.type)[1].attempts = 0
          /\ \A type \in Purposes \ {lastC'.type} :
               EntriesOfPurpose(codes', type) = EntriesOfPurpose(codes, type)]_vars

\* C26 (as claimed): storeVerificationCode always leaves exactly one entry
\* for the (email, purpose) pair, with used = false and attempts = 0,
\* whatever the pair's prior state; so every reachable state holds at most
\* one entry per pair, and the issue leaves the entries of other pairs
\* untouched.
C26_OneEntryPerPair == []AtMostOneEntryPerPair /\ IssueLeavesOneFreshEntry

\* an issue has left two unexpired entries for one pair
ReachTwoLiveEntriesOfPurpose ==
    /\ lastC.op = "storeVerificationCode"
    /\ \E type \in Purposes :
         /\ Len(EntriesOfPurpose(codes, type)) = 2
         /\ \A i \in 1..2 : EntriesOfPurpose(codes, type)[i].expiresAt > now

\* an unused, unexpired entry of purpose type holds the hash of code in the
\* namespace of that purpose
LiveEntryOfPurposeHolds(type, code) ==
    \E i \in 1..Len(codes) :
        /\ OfPurpose(codes[i], type)
        /\ ~codes[i].used
        /\ codes[i].expiresAt > now
        /\ codes[i].code = hashCode(code, type)

\* verifyCode succeeds for a purpose only through an entry issued for that
\* purpose with that code, whatever is stored for the other purpose
SuccessOnlyFromOwnPurpose ==
    [][(VerifyStep /\ lastC'.ret = "true")
       => LiveEntryOfPurposeHolds(lastC'.type, lastC'.code)]_vars

\* every entry holds a hash of the namespace of its own purpose
HashOfOwnPurpose ==
    \A i \in 1..Len(codes) :
        \E code \in RawCodes : codes[i].code = hashCode(code, codes[i].type)

\* C27 (as claimed): a code issued for one purpose never makes verifyCode
\* succeed for the other purpose, and issue and verify calls for one
\* purpose never change the used flag, the attempts or the existence of
\* the entries of the other purpose.
C27_PurposeIsolation ==
    /\ []HashOfOwnPurpose
    /\ SuccessOnlyFromOwnPurpose
    /\ [][(StoreStep \/ VerifyStep)
          => \A type \in Purposes \ {lastC'.type} :
               EntriesOfPurpose(codes', type) = EntriesOfPurpose(codes, type)]_vars

\* the entries of vcs for purpose type that are unexpired at time t
UnexpiredOfPurpose(vcs, type, t) ==
    LET Is(vc) == OfPurpose(vc, type) /\ vc.expiresAt > t
    IN SelectSeq(vcs, Is)

\* C27 (amended): a code issued for one purpose never makes verifyCode
\* succeed for the other purpose; a verify call for one purpose changes
\* nothing of the entries of the other purpose, and an issue for one
\* purpose changes nothing of the unexpired entries of the other purpose
\* (it removes the expired entries of every purpose).
C27_PurposeIsolationOfLiveEntries ==
    /\ []HashOfOwnPurpose
    /\ SuccessOnlyFromOwnPurpose
    /\ [][VerifyStep
          => \A type \in Purposes \ {lastC'.type} :
               EntriesOfPurpose(codes', type) = EntriesOfPurpose(codes, type)]_vars
    /\ [][StoreStep
          => \A type \in Purposes \ {lastC'.type} :
               EntriesOfPurpose(codes', type)
                 = UnexpiredOfPurpose(codes, type, now)]_vars

\* the code issued for email_verification was tried for login_verification,
\* which has no entry: the call returned false and the entry of
\* email_verification is as it was issued
C27_Witness ==
    /\ lastC.op = "verifyCode"
    /\ lastC.type = "login_verification"
    /\ lastC.code = "111111"
    /\ lastC.ret = "false"
    /\ EntriesOfPurpose(codes, "login_verification") = <<>>
    /\ Len(EntriesOfPurpose(codes, "email_verification")) = 1
    /\ LiveEntryOfPurposeHolds("email_verification", "111111")
    /\ EntriesOfPurpose(codes, "email_verification")[1].attempts = 0

\* wrong guesses for one purpose were counted while the other purpose holds
\* an untouched entry
ReachGuessesBesideOtherPurpose ==
    /\ lastC.op = "verifyCode"
    /\ lastC.ret = "false"
    /\ \E i, j \in 1..Len(codes) :
         /\ codes[i].type = lastC.type /\ codes[i].attempts >= 1
         /\ codes[j].type # lastC.type /\ codes[j].attempts = 0 /\ ~codes[j].used

----------------------------------------------------------------------------
(* Claims about the attempts list and the tree of a stored user *)

\* the progress tree of a stored user as getProgressTree returns it: the
\* persisted one, or the one backfilled from the attempts where none is
\* persisted yet
ProgressTreeOfUser(db, t) ==
    restoreProgressTree(readDatabase(db, t).parsed.progressTree)

\* the questionIds of the leaf items of a tree
LeafIds(p) ==
    UNION { {NodesOf(p)[i].items[j].questionId :
               j \in 1..Len(NodesOf(p)[i].items)} : i \in 1..Len(NodesOf(p)) }

\* C28: for a user created by createUser and then changed only by
\* sequential addOrUpdateAttempt calls, in every state the attempts list
\* has no two entries with one questionId, the questionIds of the list are
\* the leaf ids of the progress tree, attempts.length = totals.all =
\* stats.questionsAnswered, and hasCompleted is true exactly for the
\* questions whose submission was stored.
C28_AttemptsAgreeWithTree ==
    LET tree == ProgressTreeOfUser(dbFile, now)
    IN /\ \A i, j \in 1..Len(dbFile.attempts) :
            dbFile.attempts[i].questionId = dbFile.attempts[j].questionId
            => i = j
       /\ AttemptIds(dbFile) = LeafIds(tree)
       /\ Len(dbFile.attempts) = tree.totals.all
       /\ Len(dbFile.attempts) = dbFile.questionsAnswered
       /\ AttemptIds(dbFile) = calledIds
       /\ \A q \in UserQuestionIds :
            hasCompleted(readDatabase(dbFile, now).parsed, q) <=> q \in calledIds
       /\ procs[1].pc = "hasCompleted"
          => (procs[1].ret = "true" <=> procs[1].questionId \in calledIds)

\* two questions are stored, one of them resubmitted at a later time
C28_Witness ==
    /\ procs[1].pc = "addOrUpdateAttempt"
    /\ procs[1].ret = "attempt"
    /\ Len(dbFile.attempts) = 2
    /\ dbFile.progressTree # NoSnapshot
    /\ \E k \in 1..2 :
         dbFile.attempts[k].lastUpdatedAt > dbFile.attempts[k].completedAt

\* a submission was rejected by the TypeError of the tree (not a claim)
ReachSubmissionThrown ==
    /\ procs[1].pc = "addOrUpdateAttempt"
    /\ procs[1].ret = "TypeError"
    /\ ~hasCompleted(dbFile, procs[1].questionId)

----------------------------------------------------------------------------
(* Claims about the uniqueness of accounts *)

\* C29 (as claimed): no two user records hold the same email: over every
\* sequence of requests to the auth endpoints a second account is never
\* created for an email that already has a user record.
C29_OneAccountPerEmail ==
    \A i, j \in 1..Len(users) :
        decryptEmail(users[i].email) = decryptEmail(users[j].email) => i = j

\* verify-email has created an account for an address that had one, the
\* ciphertexts of the two being equal
ReachSecondAccountSameCiphertext ==
    /\ lastR.route = "POST /auth/verify-email"
    /\ lastR.created
    /\ Len(users) = 2
    /\ users[1].email = users[2].email

----------------------------------------------------------------------------
(* Concurrent verifyCode calls on the database file.                       *)
(* Between `await this.readDatabase()` and `await this.writeDatabase(db)`  *)
(* verifyCode runs without yielding: a call is a read step, which finds    *)
(* and judges the entry on its own copy, and, unless no entry was found,   *)
(* a write step, which replaces the whole file by that copy.               *)

\* no verifyCode call in flight
IdleVerify ==
    [pc |-> "idle", code |-> NULL, vcs |-> <<>>, db |-> NewUserProgress,
     evaluated |-> "none", ret |-> "none"]

\* a request calls verifyCode: readDatabase reads the file, the entry is
\* looked up and the code compared; without an entry the call returns false
VerifyRead(p) ==
    /\ procs[p].pc = "idle"
    /\ \E email \in Emails, code \in RawCodes, salt \in Salts :
         LET r == readDatabase(dbFile, now)
             v == verifyCode(codes, encryptEmail(email, salt), code,
                             TrackedType, now)
             found == v.codes # codes
         IN procs' = [procs EXCEPT ![p] =
                        [pc |-> IF found THEN "write" ELSE "done",
                         code |-> code, vcs |-> v.codes, db |-> r.parsed,
                         evaluated |-> IF ~found THEN "none"
                                       ELSE IF v.ret THEN "right" ELSE "wrong",
                         ret |-> IF found THEN "none" ELSE "false"]]
    /\ UNCHANGED <<dbFile, nWrites, now, treeVars, codeVars, appVars>>

\* writeDatabase(db) writes the call's copy and the call returns
VerifyWrite(p) ==
    /\ procs[p].pc = "write"
    /\ codes' = procs[p].vcs
    /\ dbFile' = writeDatabase(dbFile, procs[p].db)
    /\ nWrites' = nWrites + 1
    /\ procs' = [procs EXCEPT ![p].pc = "done",
                              ![p].ret = IF procs[p].evaluated = "right"
                                         THEN "true" ELSE "false"]
    /\ UNCHANGED <<now, lastC, issuedRaw, wrongRun, consumed, treeVars, appVars>>

NextVerifyRace ==
    \/ \E p \in Procs : VerifyRead(p) \/ VerifyWrite(p)
    \/ CodeTick

\* storeVerificationCode has just issued "111111" for the tracked pair; no
\* user is left to migrate
InitVerifyRace ==
    /\ InitTree /\ InitApp
    /\ LET r == storeVerificationCode(<<>>, encryptEmail(TrackedEmail, "salt1"),
                                      "111111", TrackedType, now)
       IN /\ codes = r.codes
          /\ lastC = CodeCall("storeVerificationCode", "111111", TrackedType, r.raw)
          /\ issuedRaw = r.raw
    /\ wrongRun = 0
    /\ consumed = FALSE
    /\ dbFile = readDatabase(NewUserProgress, now).parsed
    /\ procs = [p \in Procs |-> IdleVerify]
    /\ nWrites = 0

SpecVerifyRace == InitVerifyRace /\ [][NextVerifyRace]_vars

----------------------------------------------------------------------------
(* Claims about concurrent verifyCode calls *)

\* the calls that returned true
ReturnedTrue == {p \in Procs : procs[p].pc = "done" /\ procs[p].ret = "true"}

\* the calls that compared a wrong code with the stored entry
WrongGuessesEvaluated == {p \in Procs : procs[p].evaluated = "wrong"}

AtMostOneCallReturnsTrue == Cardinality(ReturnedTrue) <= 1

\* once no write is pending, the entry counts every wrong guess evaluated
AttemptsCountWrongGuesses ==
    (\A p \in Procs : procs[p].pc # "write")
        => \A i \in 1..Len(codes) :
              codes[i].attempts = Cardinality(WrongGuessesEvaluated)

\* C30 (as claimed): under any interleaving of concurrent verifyCode calls
\* for one (email, purpose) pair, the file read and the file write being
\* separate steps, at most one call returns true for one issued code, and
\* the stored attempts counter equals the number of wrong guesses that were
\* evaluated against that code.
C30_VerifyCodeRaceFree ==
    /\ AtMostOneCallReturnsTrue
    /\ AttemptsCountWrongGuesses

\* both calls read the unused entry before either wrote, and both returned
\* true for the one code
ReachTwoCallsReturnedTrue == Cardinality(ReturnedTrue) = 2

\* two wrong guesses were evaluated and written, and the entry counts one
ReachWrongGuessLost ==
    /\ \A p \in Procs : procs[p].pc = "done" /\ procs[p].evaluated = "wrong"
    /\ Len(codes) = 1
    /\ codes[1].attempts = 1

====
